---- MODULE Spec2Model ----
(***************************************************************************)
(* Synchronization engine of the App Store metadata dashboard:             *)
(* the local SQLite cache (app.py initialize_database), the vendor API as  *)
(* read and patched by main.py, and the refresh / save operations of       *)
(* main.py and app.py.  Every operation is one atomic action that applies  *)
(* the whole handler to the cache.                                         *)
(*                                                                         *)
(* Spec is the engine over the cache rows.  BackupSpec is the backup of    *)
(* the cache file to the remote blob (load_db_from_github and the requests *)
(* of sync_db_to_github, one action per request) with the start of the     *)
(* process.  ReaderSpec is a refresh taken commit by commit with a reader  *)
(* of the cache beside it.  PatchSpec and ListSpec are single calls of the *)
(* patch functions and of fetch_all_apps over the inputs they can be given, *)
(* UploadSpec is upload_screenshots_dashboard taken request by request.    *)
(* PoolSpec is fetch_screenshots with the tasks of its thread pool, and    *)
(* RaceSpec is sync_attribute_data run by two sessions at once, commit by  *)
(* commit.                                                                 *)
(***************************************************************************)
EXTENDS Integers, Sequences, FiniteSets, TLC

VARIABLES db, remote, last, steps,
          file, blob, writer, event, startup,
          commits, scope, seen,
          input, output,
          job, sent,
          pool, tasks,
          session

vars == <<db, remote, last, steps, file, blob, writer, event, startup, commits, scope, seen,
          input, output, job, sent, pool, tasks, session>>
engineVars == <<db, remote, last, steps>>
backupVars == <<file, blob, writer, event, startup>>
readerVars == <<commits, scope, seen>>
callVars == <<input, output>>
uploadVars == <<job, sent>>
poolVars == <<pool, tasks>>
raceVars == <<session>>

(***************************************************************************)
(* Bounds of the exploration.                                              *)
(***************************************************************************)
MaxSteps == 2

Apps == {"A", "B"}
AppOrder == <<"A", "B">>
Stores == {1, 2}
Locales == {"en", "fr"}
Vals == {"v0", "v1"}
None == "None"

(***************************************************************************)
(* Shape of the vendor account used by the exploration: app A has two      *)
(* app-info resources, both platforms and two locales; app B has one       *)
(* app-info resource, the IOS platform and one locale.                     *)
(***************************************************************************)
RemoteInfos(a) == IF a = "A" THEN << <<"A", "1">>, <<"A", "2">> >> ELSE << <<"B", "1">> >>
RemotePlatforms(a) == IF a = "A" THEN <<"IOS", "MAC_OS">> ELSE <<"IOS">>
RemoteLocales(a) == IF a = "A" THEN {"en", "fr"} ELSE {"en"}
AppName(a) == IF a = "A" THEN "Widget" ELSE "Gadget"

InfoIds == {<<"A", "1">>, <<"A", "2">>, <<"B", "1">>}
InfoLocIds == {<<i[1], i[2], l>> : i \in InfoIds, l \in Locales} \cap
              {<<a, k, l>> : a \in Apps, k \in {"1", "2"}, l \in Locales}
VersionIds == {<<"A", "IOS">>, <<"A", "MAC_OS">>, <<"B", "IOS">>}
VerLocIds == {x \in {<<a, p, l>> : a \in Apps, p \in {"IOS", "MAC_OS"}, l \in Locales} :
                 /\ <<x[1], x[2]>> \in VersionIds
                 /\ x[3] \in RemoteLocales(x[1])}
LiveInfoLocIds == {x \in InfoLocIds : x[3] \in RemoteLocales(x[1])}

InfoAttrs == {"name", "subtitle", "privacy_policy_url", "privacy_choices_url"}
VersionAttrs == {"description", "keywords", "marketing_url", "promotional_text",
                 "support_url", "whats_new"}

\* main.py ATTRIBUTE_MAPPING: internal snake_case name -> vendor camelCase name
ATTRIBUTE_MAPPING ==
  [k \in InfoAttrs \cup VersionAttrs |->
     CASE k = "privacy_policy_url" -> "privacyPolicyUrl"
       [] k = "privacy_choices_url" -> "privacyChoicesUrl"
       [] k = "marketing_url" -> "marketingUrl"
       [] k = "support_url" -> "supportUrl"
       [] k = "whats_new" -> "whatsNew"
       [] k = "promotional_text" -> "promotionalText"
       [] OTHER -> k]

SeqToSet(s) == {s[i] : i \in 1..Len(s)}

\* a local variable: e is computed once and F is the code that uses it
With(e, F(_)) == F(e)

(***************************************************************************)
(* The cache: the five app-scoped tables of initialize_database.  Each     *)
(* table is the set of its rows; the PRIMARY KEY of each table is one      *)
(* column (app_id, localization_id, version_id, localization_id, id).      *)
(***************************************************************************)
EmptyDb == [apps |-> {}, app_info_localizations |-> {}, app_versions |-> {},
            app_version_localizations |-> {}, app_screenshots |-> {}]

\* INSERT OR REPLACE: a row with the same primary key is removed first
InsertOrReplace(rows, row, pk) == {r \in rows : r[pk] # row[pk]} \cup {row}

\* INSERT OR IGNORE: a row whose primary key is taken is not inserted
InsertOrIgnore(rows, row, pk) ==
  IF \E r \in rows : r[pk] = row[pk] THEN rows ELSE rows \cup {row}

\* DELETE FROM t WHERE app_id = ? AND store_id = ?
DeleteAppStore(rows, a, s) == {r \in rows : ~(r.app_id = a /\ r.store_id = s)}

\* variant: the platform condition of the DELETE is missing
DeleteAppStorePlatform_AnyPlatform(rows, a, s, p) == DeleteAppStore(rows, a, s)

\* DELETE FROM t WHERE app_id = ? AND store_id = ? AND platform = ?
DeleteAppStorePlatform(rows, a, s, p) ==
  {r \in rows : ~(r.app_id = a /\ r.store_id = s /\ r.platform = p)}

(***************************************************************************)
(* The vendor API.  remote.listing[s] is the set of apps the credentials   *)
(* of store s list, remote.infoState the appStoreState of each app-info    *)
(* resource, remote.infoLoc and remote.verLoc the attributes of each       *)
(* localization under the vendor's camelCase keys.                         *)
(*                                                                         *)
(* A request fails according to f, the fault of the operation under way:   *)
(* <<"none">>, <<"token">> (generate_jwt returns None for every call), or  *)
(* the identity of the one request that gets a non-2xx / network error.    *)
(***************************************************************************)
NoFault == <<"none">>
TokenFault == <<"token">>

\* generate_jwt: the token, or None when signing fails
generate_jwt(f) == IF f = TokenFault THEN None ELSE "jwt"

\* what a fetch_* call gives: pushed tells whether it called sync_db_to_github
Ok(d) == [st |-> "ok", data |-> d, pushed |-> FALSE]
Nothing == [st |-> "none", data |-> <<>>, pushed |-> FALSE]
Raised == [st |-> "raise", data |-> <<>>, pushed |-> FALSE]

\* sync_db_to_github as its callers see it: it returns None, whether the PUT
\* was answered 200/201 ("ok") or otherwise ("logged": the failure is printed),
\* and it has no try/except, so a network error of requests.get or
\* requests.put leaves it as an exception ("raise").  site names the call.
PushFault(kind, site) == <<"push", kind>> \o site
sync_db_to_github(site, f) ==
  IF f = PushFault("raise", site) THEN "raise"
  ELSE IF f = PushFault("status", site) THEN "logged"
  ELSE "ok"

\* the end of a fetch_* function: sync_db_to_github(), then return r
PushThenReturn(r, site, f) ==
  IF sync_db_to_github(site, f) = "raise" THEN [Raised EXCEPT !.pushed = TRUE]
  ELSE [r EXCEPT !.pushed = TRUE]

\* saved holds the committed cache as of the last call of sync_db_to_github,
\* and is empty before the first call: r is what a fetch_* call returned
\* while the committed cache was dbase
NotSaved == {}
SavedBy(r, dbase, saved) == IF r.pushed THEN {dbase} ELSE saved
Latest(later, earlier) == IF later = NotSaved THEN earlier ELSE later

\* get: raises AppleAPIError when the request fails, else the JSON body
get(call, body, f) == IF f = call THEN Raised ELSE Ok(body)

\* variant: a page request that fails ends the loop with the apps read so far
RECURSIVE FetchPages_Partial(_, _, _, _)
FetchPages_Partial(pages, url, apps, f) ==
  IF url = None THEN Ok(apps)
  ELSE With(get(<<url>>, pages[url], f), LAMBDA data :
         IF data.st = "raise" THEN Ok(apps)
         ELSE IF DOMAIN data.data = {} THEN Nothing
         ELSE FetchPages_Partial(pages, data.data.next, apps \o data.data.data, f))

\* the while loop of fetch_all_apps: get the page at url, extend apps by its
\* "data", go on at its "next" link until a page has none; pages[url] is the
\* JSON body the vendor serves at url
RECURSIVE FetchPages(_, _, _, _)
FetchPages(pages, url, apps, f) ==
  IF url = None THEN Ok(apps)
  ELSE With(get(<<url>>, pages[url], f), LAMBDA data :
         IF data.st = "raise" THEN Raised
         ELSE IF DOMAIN data.data = {} THEN Nothing
         ELSE FetchPages(pages, data.data.next, apps \o data.data.data, f))

\* fetch_all_apps over the pages of a listing: None without a token, else
\* the apps of all pages, returned after a call of sync_db_to_github
FetchAllPages(pages, f) ==
  IF generate_jwt(f) = None THEN Nothing
  ELSE With(FetchPages(pages, "apps", <<>>, f), LAMBDA apps :
         IF apps.st # "ok" THEN apps ELSE PushThenReturn(apps, <<"apps">>, f))

\* the listing of store s, served in one page
ListingPages(rem, s) ==
  [url \in {"apps"} |->
     [data |-> SelectSeq([i \in 1..Len(AppOrder) |->
                           [id |-> AppOrder[i], name |-> AppName(AppOrder[i])]],
                        LAMBDA app : app.id \in rem.listing[s]),
      next |-> None]]

\* fetch_all_apps with the credentials of store s
fetch_all_apps(rem, s, f) == FetchAllPages(ListingPages(rem, s), f)

\* variant: the records are returned whatever their appStoreState
fetch_app_info_AnyState(rem, a, f) ==
  IF generate_jwt(f) = None THEN Nothing
  ELSE With(get(<<"appInfos", a>>, RemoteInfos(a), f), LAMBDA raw_data :
         IF raw_data.st = "raise" THEN Raised
         ELSE PushThenReturn(Ok(raw_data.data), <<"appInfos", a>>, f))

\* fetch_app_info: only the records in PREPARE_FOR_SUBMISSION are returned
fetch_app_info(rem, a, f) ==
  IF generate_jwt(f) = None THEN Nothing
  ELSE With(get(<<"appInfos", a>>, RemoteInfos(a), f), LAMBDA raw_data :
         IF raw_data.st = "raise" THEN Raised
         ELSE PushThenReturn(
                Ok(SelectSeq(raw_data.data,
                             LAMBDA rec : rem.infoState[rec] = "PREPARE_FOR_SUBMISSION")),
                <<"appInfos", a>>, f))

\* fetch_app_info_localizations: the localizations of one app-info resource
fetch_app_info_localizations(rem, info, f) ==
  IF generate_jwt(f) = None THEN Nothing
  ELSE With(get(<<"infoLocs", info[1]>>,
                {[id |-> x, attributes |-> rem.infoLoc[x]] :
                    x \in {y \in DOMAIN rem.infoLoc : <<y[1], y[2]>> = info}},
                f),
            LAMBDA data :
         IF data.st = "raise" THEN Raised
         ELSE PushThenReturn(data, <<"infoLocs", info[1]>>, f))

\* fetch_app_store_versions: filter[appStoreState]=PREPARE_FOR_SUBMISSION and,
\* when a platform is given, filter[platform]
fetch_app_store_versions(rem, a, f, platform) ==
  IF generate_jwt(f) = None THEN Nothing
  ELSE With(get(<<"versions", a>>,
                SelectSeq([i \in 1..Len(RemotePlatforms(a)) |->
                             [id |-> <<a, RemotePlatforms(a)[i]>>,
                              platform |-> RemotePlatforms(a)[i]]],
                          LAMBDA v : platform = None \/ v.platform = platform),
                f),
            LAMBDA data :
         IF data.st = "raise" THEN Raised
         ELSE PushThenReturn(data, <<"versions", a>>, f))

\* fetch_app_store_version_localizations: the localizations of one version
fetch_app_store_version_localizations(rem, version_id, f) ==
  IF generate_jwt(f) = None THEN Nothing
  ELSE With(get(<<"verLocs", version_id[1], version_id[2]>>,
                {[id |-> x, attributes |-> rem.verLoc[x]] :
                    x \in {y \in DOMAIN rem.verLoc : <<y[1], y[2]>> = version_id}},
                f),
            LAMBDA data :
         IF data.st = "raise" THEN Raised
         ELSE PushThenReturn(data, <<"verLocs", version_id[1], version_id[2]>>, f))

\* ATTRIBUTE_MAPPING.get(k, k): a key the table does not hold is left as it is
MappedKey(k) == IF k \in DOMAIN ATTRIBUTE_MAPPING THEN ATTRIBUTE_MAPPING[k] ELSE k

\* variant: the None values are sent along
MappedAttributes_KeepNone(attributes) ==
  [ck \in {MappedKey(k) : k \in DOMAIN attributes} |->
     attributes[CHOOSE k \in DOMAIN attributes : MappedKey(k) = ck]]

\* the attributes of a PATCH payload: None values dropped, keys mapped
MappedAttributes(attributes) ==
  LET keep == {k \in DOMAIN attributes : attributes[k] # None}
  IN [ck \in {MappedKey(k) : k \in keep} |->
        attributes[CHOOSE k \in keep : MappedKey(k) = ck]]

\* the payload of a PATCH of a localization
PatchPayload(type, localization_id, attributes) ==
  [data |-> [type |-> type, id |-> localization_id,
             attributes |-> MappedAttributes(attributes)]]

\* the vendor applies a PATCH: the attributes of the payload replace the old ones
ApplyPatch(old, payload) ==
  [k \in DOMAIN old |-> IF k \in DOMAIN payload THEN payload[k] ELSE old[k]]

\* patch: raises AppleAPIError on a non-2xx answer or a network error
patch(call, f) == IF f = call THEN Raised ELSE Ok(<<>>)

\* patch_app_info_localization: False without a token, raises when the PATCH
\* fails, True when the vendor accepted it
patch_app_info_localization(rem, localization_id, attributes, f) ==
  IF generate_jwt(f) = None THEN [st |-> "false", rem |-> rem]
  ELSE IF patch(<<"patch">> \o localization_id, f).st = "raise"
            \/ localization_id \notin DOMAIN rem.infoLoc
       THEN [st |-> "raise", rem |-> rem]
       ELSE [st |-> "true",
             rem |-> [rem EXCEPT !.infoLoc[localization_id] =
                                    ApplyPatch(@, PatchPayload("appInfoLocalizations",
                                                               localization_id,
                                                               attributes).data.attributes)]]

\* patch_app_store_version_localization: the same for a version localization
patch_app_store_version_localization(rem, localization_id, attributes, f) ==
  IF generate_jwt(f) = None THEN [st |-> "false", rem |-> rem]
  ELSE IF patch(<<"patch">> \o localization_id, f).st = "raise"
            \/ localization_id \notin DOMAIN rem.verLoc
       THEN [st |-> "raise", rem |-> rem]
       ELSE [st |-> "true",
             rem |-> [rem EXCEPT !.verLoc[localization_id] =
                                    ApplyPatch(@, PatchPayload("appStoreVersionLocalizations",
                                                               localization_id,
                                                               attributes).data.attributes)]]

(***************************************************************************)
(* Rows written by the engine.                                             *)
(***************************************************************************)
AppRow(a, s, name) == [app_id |-> a, store_id |-> s, name |-> name]

InfoLocRow(loc, a, s) ==
  [localization_id |-> loc.id, app_id |-> a, store_id |-> s,
   locale |-> loc.attributes.locale,
   name |-> loc.attributes.name,
   subtitle |-> loc.attributes.subtitle,
   privacy_policy_url |-> loc.attributes.privacyPolicyUrl,
   privacy_choices_url |-> loc.attributes.privacyChoicesUrl]

VersionRow(version_id, a, s, platform) ==
  [version_id |-> version_id, app_id |-> a, store_id |-> s, platform |-> platform]

VerLocRow(loc, version_id, a, s, platform) ==
  [localization_id |-> loc.id, version_id |-> version_id, app_id |-> a, store_id |-> s,
   locale |-> loc.attributes.locale,
   description |-> loc.attributes.description,
   keywords |-> loc.attributes.keywords,
   marketing_url |-> loc.attributes.marketingUrl,
   promotional_text |-> loc.attributes.promotionalText,
   support_url |-> loc.attributes.supportUrl,
   whats_new |-> loc.attributes.whatsNew,
   platform |-> platform]

\* INSERT OR REPLACE of every localization of a response
RECURSIVE InsertAll(_, _, _)
InsertAll(rows, new, pk) ==
  IF new = {} THEN rows
  ELSE LET r == CHOOSE x \in new : TRUE
       IN InsertAll(InsertOrReplace(rows, r, pk), new \ {r}, pk)

(***************************************************************************)
(* Screenshots held by the vendor: one screenshot set with one screenshot  *)
(* for every version localization.                                         *)
(***************************************************************************)
RemoteShots(loc_id) ==
  {[id |-> loc_id \o <<"1">>,
    display_type |-> IF loc_id[2] = "IOS" THEN "APP_IPHONE_65" ELSE "APP_DESKTOP",
    url |-> "url", width |-> 1242, height |-> 2688]}

\* process_localization: the screenshots of one localization; raises when the
\* request for its screenshot sets or for the screenshots of a set fails
process_localization(loc, platform_name, a, s, f) ==
  With(get(<<"sets">> \o loc.id, RemoteShots(loc.id), f), LAMBDA sets_data :
    IF sets_data.st = "raise" THEN Raised
    ELSE Ok({[id |-> shot.id, app_id |-> a, store_id |-> s, localization_id |-> loc.id,
              locale |-> loc.attributes.locale, display_type |-> shot.display_type,
              url |-> shot.url, width |-> shot.width, height |-> shot.height,
              platform |-> platform_name] : shot \in sets_data.data}))

\* the fan-out of fetch_screenshots over the versions: the rows of every
\* localization whose worker did not raise; raises when the localizations of
\* a version cannot be listed
RECURSIVE CollectScreenshots(_, _, _, _, _, _)
CollectScreenshots(rem, versions, a, s, f, platform) ==
  IF versions = <<>> THEN Ok({})
  ELSE With(CollectScreenshots(rem, Tail(versions), a, s, f, platform), LAMBDA rest :
         IF platform # None /\ Head(versions).platform # platform THEN rest
         ELSE With(fetch_app_store_version_localizations(rem, Head(versions).id, f),
                   LAMBDA locs_data :
                IF locs_data.st = "raise" THEN Raised
                ELSE IF rest.st = "raise" THEN Raised
                ELSE IF locs_data.st = "none" THEN rest
                ELSE Ok(rest.data \cup
                        UNION {With(process_localization(loc, Head(versions).platform, a, s, f),
                                    LAMBDA res : IF res.st = "raise" THEN {} ELSE res.data) :
                               loc \in locs_data.data})))

RECURSIVE InsertAllOrIgnore(_, _, _)
InsertAllOrIgnore(rows, new, pk) ==
  IF new = {} THEN rows
  ELSE LET r == CHOOSE x \in new : TRUE
       IN InsertAllOrIgnore(InsertOrIgnore(rows, r, pk), new \ {r}, pk)

\* fetch_screenshots: fetch everything, then DELETE the screenshots of the app
\* (of the platform when one is given) and INSERT OR IGNORE the fetched ones
fetch_screenshots(dbase, rem, a, s, f, platform) ==
  IF generate_jwt(f) = None THEN [db |-> dbase, st |-> "ok", saved |-> NotSaved]
  ELSE With(fetch_app_store_versions(rem, a, f, platform), LAMBDA versions_data :
         With(SavedBy(versions_data, dbase, NotSaved), LAMBDA saved :
           IF versions_data.st = "raise" THEN [db |-> dbase, st |-> "raise", saved |-> saved]
           ELSE IF versions_data.st = "none" THEN [db |-> dbase, st |-> "ok", saved |-> saved]
           ELSE With(CollectScreenshots(rem, versions_data.data, a, s, f, platform),
                     LAMBDA all_screenshots :
                  IF all_screenshots.st = "raise"
                  THEN [db |-> dbase, st |-> "raise", saved |-> saved]
                  ELSE With([dbase EXCEPT !.app_screenshots =
                               InsertAllOrIgnore(
                                 IF platform # None
                                 THEN DeleteAppStorePlatform(@, a, s, platform)
                                 ELSE DeleteAppStore(@, a, s),
                                 all_screenshots.data, "id")],
                            LAMBDA db1 :
                         [db |-> db1,
                          st |-> IF sync_db_to_github(<<"screenshots", a>>, f) = "raise"
                                 THEN "raise" ELSE "ok",
                          saved |-> {db1}]))))

(***************************************************************************)
(* process_app (main.py): delete the rows of the app, write the apps row,  *)
(* then fetch and insert app-info localizations, versions with their       *)
(* localizations, and screenshots.  Every write is committed at once, so   *)
(* an exception leaves what was written before it.                         *)
(***************************************************************************)
\* variant: process_app deletes nothing before it inserts
DeleteOldData_Keep(dbase, a, s) == dbase

\* STEP 1: the four DELETEs
DeleteOldData(dbase, a, s) ==
  [dbase EXCEPT !.app_screenshots = DeleteAppStore(@, a, s),
                !.app_version_localizations = DeleteAppStore(@, a, s),
                !.app_versions = DeleteAppStore(@, a, s),
                !.app_info_localizations = DeleteAppStore(@, a, s)]

\* the app-info resource whose localizations are read: the second one when
\* more than one is returned
AppInfoIndex(data) == IF Len(data) > 1 THEN 2 ELSE 1

\* STEP 3 of process_app
ProcessAppInfo(dbase, rem, a, s, f) ==
  With(fetch_app_info(rem, a, f), LAMBDA app_info_data :
    With(SavedBy(app_info_data, dbase, NotSaved), LAMBDA saved :
      IF app_info_data.st = "raise" THEN [db |-> dbase, st |-> "raise", saved |-> saved]
      ELSE IF app_info_data.st = "none" \/ app_info_data.data = <<>>
           THEN [db |-> dbase, st |-> "ok", saved |-> saved]
      ELSE With(fetch_app_info_localizations(
                  rem, app_info_data.data[AppInfoIndex(app_info_data.data)], f),
                LAMBDA locs :
             IF locs.st = "raise" THEN [db |-> dbase, st |-> "raise", saved |-> saved]
             ELSE IF locs.st = "none" THEN [db |-> dbase, st |-> "ok", saved |-> saved]
             ELSE [db |-> [dbase EXCEPT !.app_info_localizations =
                              InsertAll(@, {InfoLocRow(loc, a, s) : loc \in locs.data},
                                        "localization_id")],
                   st |-> "ok", saved |-> saved])))

\* STEP 4 of process_app: the loop over the versions
RECURSIVE ProcessVersions(_, _, _, _, _, _)
ProcessVersions(dbase, rem, versions, a, s, f) ==
  IF versions = <<>> THEN [db |-> dbase, st |-> "ok", saved |-> NotSaved]
  ELSE With([dbase EXCEPT !.app_versions =
               InsertOrReplace(@, VersionRow(Head(versions).id, a, s, Head(versions).platform),
                               "version_id")],
            LAMBDA db1 :
         With(fetch_app_store_version_localizations(rem, Head(versions).id, f), LAMBDA locs :
           IF locs.st = "raise"
           THEN [db |-> db1, st |-> "raise", saved |-> SavedBy(locs, db1, NotSaved)]
           ELSE With(ProcessVersions(
                       IF locs.st = "none" THEN db1
                       ELSE [db1 EXCEPT !.app_version_localizations =
                               InsertAll(@, {VerLocRow(loc, Head(versions).id, a, s,
                                                       Head(versions).platform) :
                                               loc \in locs.data},
                                         "localization_id")],
                       rem, Tail(versions), a, s, f),
                     LAMBDA rest :
                  [rest EXCEPT !.saved = Latest(@, SavedBy(locs, db1, NotSaved))])))

\* variant: STEP 2 is a plain INSERT, which fails on an app_id already stored
process_app_PlainInsert(dbase, rem, app, s, f) ==
  LET a == app.id
      db1 == DeleteOldData(dbase, a, s)
      db2 == [db1 EXCEPT !.apps = @ \cup {AppRow(a, s, app.name)}]
      r3 == ProcessAppInfo(db2, rem, a, s, f)
  IN IF \E r \in db1.apps : r.app_id = a THEN [db |-> db1, st |-> "raise", saved |-> NotSaved]
     ELSE IF r3.st = "raise" THEN r3
     ELSE LET versions_data == fetch_app_store_versions(rem, a, f, None)
              saved3 == SavedBy(versions_data, r3.db, r3.saved)
          IN IF versions_data.st = "raise" THEN [db |-> r3.db, st |-> "raise", saved |-> saved3]
             ELSE LET r4 == IF versions_data.st = "none" THEN r3
                            ELSE ProcessVersions(r3.db, rem, versions_data.data, a, s, f)
                  IN IF r4.st = "raise" THEN [r4 EXCEPT !.saved = Latest(@, saved3)]
                     ELSE LET r5 == fetch_screenshots(r4.db, rem, a, s, f, None)
                          IN IF r5.st = "raise"
                             THEN [r5 EXCEPT !.saved = Latest(@, Latest(r4.saved, saved3))]
                             ELSE [db |-> r5.db,
                                   st |-> IF sync_db_to_github(<<"process_app", a>>, f) = "raise"
                                          THEN "raise" ELSE "ok",
                                   saved |-> {r5.db}]

process_app(dbase, rem, app, s, f) ==
  With(ProcessAppInfo([DeleteOldData(dbase, app.id, s) EXCEPT
                         !.apps = InsertOrReplace(@, AppRow(app.id, s, app.name), "app_id")],
                      rem, app.id, s, f),
       LAMBDA r3 :
    IF r3.st = "raise" THEN r3
    ELSE With(fetch_app_store_versions(rem, app.id, f, None), LAMBDA versions_data :
           With(SavedBy(versions_data, r3.db, r3.saved), LAMBDA saved3 :
             IF versions_data.st = "raise"
             THEN [db |-> r3.db, st |-> "raise", saved |-> saved3]
             ELSE With(IF versions_data.st = "none" THEN r3
                       ELSE ProcessVersions(r3.db, rem, versions_data.data, app.id, s, f),
                       LAMBDA r4 :
                    IF r4.st = "raise" THEN [r4 EXCEPT !.saved = Latest(@, saved3)]
                    ELSE With(fetch_screenshots(r4.db, rem, app.id, s, f, None), LAMBDA r5 :
                           IF r5.st = "raise"
                           THEN [r5 EXCEPT !.saved = Latest(@, Latest(r4.saved, saved3))]
                           ELSE [db |-> r5.db,
                                 st |-> IF sync_db_to_github(<<"process_app", app.id>>, f)
                                           = "raise"
                                        THEN "raise" ELSE "ok",
                                 saved |-> {r5.db}])))))

(***************************************************************************)
(* fetch_and_store_single_app (main.py): process_app for one app, under a  *)
(* try/except that turns an exception into False.                          *)
(***************************************************************************)
\* variant: the single-app refresh ends with the cleanup of the full refresh,
\* run with the one app as the list of current apps
fetch_and_store_single_app_Cleanup(dbase, rem, a, s, f) ==
  LET named == {r \in dbase.apps : r.app_id = a /\ r.store_id = s}
      app_name == IF named = {} THEN "Unknown" ELSE (CHOOSE r \in named : TRUE).name
      r == process_app(dbase, rem, [id |-> a, name |-> app_name], s, f)
      keep(rows) == {x \in rows : ~(x.store_id = s /\ x.app_id # a)}
      db1 == [apps |-> keep(r.db.apps),
              app_info_localizations |-> keep(r.db.app_info_localizations),
              app_versions |-> keep(r.db.app_versions),
              app_version_localizations |-> keep(r.db.app_version_localizations),
              app_screenshots |-> keep(r.db.app_screenshots)]
  IN IF r.st = "raise" THEN [db |-> db1, st |-> "false", saved |-> r.saved]
     ELSE [db |-> db1,
           st |-> IF sync_db_to_github(<<"single_app">>, f) = "raise" THEN "false" ELSE "true",
           saved |-> {db1}]

\* variant: no try/except around process_app and the persist
fetch_and_store_single_app_NoExcept(dbase, rem, a, s, f) ==
  LET named == {r \in dbase.apps : r.app_id = a /\ r.store_id = s}
      app_name == IF named = {} THEN "Unknown" ELSE (CHOOSE r \in named : TRUE).name
  IN With(process_app(dbase, rem, [id |-> a, name |-> app_name], s, f), LAMBDA r :
       IF r.st = "raise" THEN [db |-> r.db, st |-> "raise", saved |-> r.saved]
       ELSE [db |-> r.db,
             st |-> IF sync_db_to_github(<<"single_app">>, f) = "raise"
                    THEN "raise" ELSE "true",
             saved |-> {r.db}])

fetch_and_store_single_app(dbase, rem, a, s, f) ==
  LET named == {r \in dbase.apps : r.app_id = a /\ r.store_id = s}
      app_name == IF named = {} THEN "Unknown" ELSE (CHOOSE r \in named : TRUE).name
  IN With(process_app(dbase, rem, [id |-> a, name |-> app_name], s, f), LAMBDA r :
       IF r.st = "raise" THEN [db |-> r.db, st |-> "false", saved |-> r.saved]
       ELSE [db |-> r.db,
             st |-> IF sync_db_to_github(<<"single_app">>, f) = "raise"
                    THEN "false" ELSE "true",
             saved |-> {r.db}])

(***************************************************************************)
(* fetch_and_store_apps (main.py): list the apps, process each one under a *)
(* try/except, then delete the rows of the apps that are not listed.       *)
(* trace records the order of the per-app steps and of the cleanup.        *)
(***************************************************************************)
ProcessEvent(a, ok) == [ev |-> "process_app", app |-> a, ok |-> ok, ids |-> <<>>]
CleanupEvent(ids) == [ev |-> "cleanup", app |-> None, ok |-> TRUE, ids |-> ids]

\* variant: the loop has no try/except, the first failing app ends it
RECURSIVE RunApps_StopAtFailure(_, _, _, _, _)
RunApps_StopAtFailure(acc, rem, apps, s, f) ==
  IF apps = <<>> THEN acc
  ELSE With(process_app(acc.db, rem, Head(apps), s, f), LAMBDA r :
         IF r.st # "ok"
         THEN [db |-> r.db, success_count |-> acc.success_count,
               trace |-> Append(acc.trace, ProcessEvent(Head(apps).id, FALSE)),
               saved |-> Latest(r.saved, acc.saved)]
         ELSE RunApps_StopAtFailure(
                [db |-> r.db, success_count |-> acc.success_count + 1,
                 trace |-> Append(acc.trace, ProcessEvent(Head(apps).id, TRUE)),
                 saved |-> Latest(r.saved, acc.saved)],
                rem, Tail(apps), s, f))

\* the loop over the listed apps
RECURSIVE RunApps(_, _, _, _, _)
RunApps(acc, rem, apps, s, f) ==
  IF apps = <<>> THEN acc
  ELSE With(process_app(acc.db, rem, Head(apps), s, f), LAMBDA r :
         RunApps([db |-> r.db,
                  success_count |-> acc.success_count + (IF r.st = "ok" THEN 1 ELSE 0),
                  trace |-> Append(acc.trace, ProcessEvent(Head(apps).id, r.st = "ok")),
                  saved |-> Latest(r.saved, acc.saved)],
                 rem, Tail(apps), s, f))

\* variant: the cleanup loop covers the apps table only
Cleanup_AppsOnly(dbase, s, current_app_ids) ==
  [dbase EXCEPT !.apps =
     {r \in @ : ~(r.store_id = s /\ r.app_id \notin SeqToSet(current_app_ids))}]

\* CLEANUP: DELETE FROM t WHERE store_id = ? AND app_id NOT IN (current_app_ids)
Cleanup(dbase, s, current_app_ids) ==
  LET keep(rows) == {r \in rows : ~(r.store_id = s /\ r.app_id \notin SeqToSet(current_app_ids))}
  IN [apps |-> keep(dbase.apps),
      app_info_localizations |-> keep(dbase.app_info_localizations),
      app_versions |-> keep(dbase.app_versions),
      app_version_localizations |-> keep(dbase.app_version_localizations),
      app_screenshots |-> keep(dbase.app_screenshots)]

\* variant: the cleanup runs before the loop over the apps
fetch_and_store_apps_CleanupFirst(dbase, rem, s, f) ==
  With(fetch_all_apps(rem, s, f), LAMBDA apps :
    IF apps.st = "raise"
    THEN [db |-> dbase, st |-> "raise", trace |-> <<>>, listed |-> <<>>,
          saved |-> SavedBy(apps, dbase, NotSaved)]
    ELSE IF apps.st = "none" \/ apps.data = <<>>
         THEN [db |-> dbase, st |-> "false", trace |-> <<>>, listed |-> <<>>,
               saved |-> SavedBy(apps, dbase, NotSaved)]
    ELSE With([i \in 1..Len(apps.data) |-> apps.data[i].id], LAMBDA current_app_ids :
           With(RunApps([db |-> Cleanup(dbase, s, current_app_ids), success_count |-> 0,
                         trace |-> <<CleanupEvent(current_app_ids)>>,
                         saved |-> SavedBy(apps, dbase, NotSaved)],
                        rem, apps.data, s, f),
                LAMBDA loop :
             [db |-> loop.db,
              st |-> IF sync_db_to_github(<<"fetch_and_store_apps">>, f) = "raise"
                     THEN "raise"
                     ELSE IF loop.success_count > 0 THEN "true" ELSE "false",
              trace |-> loop.trace,
              listed |-> current_app_ids,
              saved |-> {loop.db}])))

\* variant: the loop has no try/except, so the exception of a failing app
\* leaves the function before the cleanup and the persist
fetch_and_store_apps_Propagate(dbase, rem, s, f) ==
  With(fetch_all_apps(rem, s, f), LAMBDA apps :
    IF apps.st = "raise"
    THEN [db |-> dbase, st |-> "raise", trace |-> <<>>, listed |-> <<>>,
          saved |-> SavedBy(apps, dbase, NotSaved)]
    ELSE IF apps.st = "none" \/ apps.data = <<>>
         THEN [db |-> dbase, st |-> "false", trace |-> <<>>, listed |-> <<>>,
               saved |-> SavedBy(apps, dbase, NotSaved)]
    ELSE With([i \in 1..Len(apps.data) |-> apps.data[i].id], LAMBDA current_app_ids :
           With(RunApps_StopAtFailure([db |-> dbase, success_count |-> 0, trace |-> <<>>,
                                       saved |-> SavedBy(apps, dbase, NotSaved)],
                                      rem, apps.data, s, f),
                LAMBDA loop :
             IF \E i \in 1..Len(loop.trace) : ~loop.trace[i].ok
             THEN [db |-> loop.db, st |-> "raise", trace |-> loop.trace,
                   listed |-> current_app_ids, saved |-> loop.saved]
             ELSE With(Cleanup(loop.db, s, current_app_ids), LAMBDA db1 :
                    [db |-> db1,
                     st |-> IF sync_db_to_github(<<"fetch_and_store_apps">>, f) = "raise"
                            THEN "raise"
                            ELSE IF loop.success_count > 0 THEN "true" ELSE "false",
                     trace |-> Append(loop.trace, CleanupEvent(current_app_ids)),
                     listed |-> current_app_ids,
                     saved |-> {db1}]))))

fetch_and_store_apps(dbase, rem, s, f) ==
  With(fetch_all_apps(rem, s, f), LAMBDA apps :
    IF apps.st = "raise"
    THEN [db |-> dbase, st |-> "raise", trace |-> <<>>, listed |-> <<>>,
          saved |-> SavedBy(apps, dbase, NotSaved)]
    ELSE IF apps.st = "none" \/ apps.data = <<>>
         THEN [db |-> dbase, st |-> "false", trace |-> <<>>, listed |-> <<>>,
               saved |-> SavedBy(apps, dbase, NotSaved)]
    ELSE With([i \in 1..Len(apps.data) |-> apps.data[i].id], LAMBDA current_app_ids :
           With(RunApps([db |-> dbase, success_count |-> 0, trace |-> <<>>,
                         saved |-> SavedBy(apps, dbase, NotSaved)],
                        rem, apps.data, s, f),
                LAMBDA loop :
             With(IF current_app_ids # <<>> THEN Cleanup(loop.db, s, current_app_ids)
                  ELSE loop.db,
                  LAMBDA db1 :
               [db |-> db1,
                st |-> IF sync_db_to_github(<<"fetch_and_store_apps">>, f) = "raise"
                       THEN "raise"
                       ELSE IF loop.success_count > 0 THEN "true" ELSE "false",
                trace |-> IF current_app_ids # <<>>
                          THEN Append(loop.trace, CleanupEvent(current_app_ids))
                          ELSE loop.trace,
                listed |-> current_app_ids,
                saved |-> {db1}]))))

(***************************************************************************)
(* sync_attribute_data (app.py): DELETE the rows of the scope, then fetch  *)
(* and INSERT OR REPLACE.  The DELETE is committed before the fetch.  In   *)
(* the version branch the inserts run in one sqlite3 transaction that is   *)
(* committed after the localizations of each version and rolled back when  *)
(* an exception leaves the with-block.                                     *)
(***************************************************************************)
\* variant: no DELETE, and INSERT OR IGNORE in place of INSERT OR REPLACE
SyncAppInfo_InsertOrIgnore(dbase, rem, a, s, f) ==
  LET app_info_data == fetch_app_info(rem, a, f)
      saved == SavedBy(app_info_data, dbase, NotSaved)
  IN IF app_info_data.st = "raise" THEN [db |-> dbase, st |-> "raise", saved |-> saved]
     ELSE IF app_info_data.st = "none" \/ app_info_data.data = <<>>
          THEN [db |-> dbase, st |-> "false", saved |-> saved]
     ELSE LET app_info_id == app_info_data.data[AppInfoIndex(app_info_data.data)]
              loc_data == fetch_app_info_localizations(rem, app_info_id, f)
          IN IF loc_data.st = "raise" THEN [db |-> dbase, st |-> "raise", saved |-> saved]
             ELSE IF loc_data.st = "none" THEN [db |-> dbase, st |-> "false", saved |-> saved]
             ELSE [db |-> [dbase EXCEPT !.app_info_localizations =
                              InsertAllOrIgnore(@, {InfoLocRow(loc, a, s) : loc \in loc_data.data},
                                                "localization_id")],
                   st |-> "true", saved |-> saved]

SyncAppInfo(dbase, rem, a, s, f) ==
  With([dbase EXCEPT !.app_info_localizations = DeleteAppStore(@, a, s)], LAMBDA db1 :
    With(fetch_app_info(rem, a, f), LAMBDA app_info_data :
      With(SavedBy(app_info_data, db1, NotSaved), LAMBDA saved :
        IF app_info_data.st = "raise" THEN [db |-> db1, st |-> "raise", saved |-> saved]
        ELSE IF app_info_data.st = "none" \/ app_info_data.data = <<>>
             THEN [db |-> db1, st |-> "false", saved |-> saved]
        ELSE With(fetch_app_info_localizations(
                    rem, app_info_data.data[AppInfoIndex(app_info_data.data)], f),
                  LAMBDA loc_data :
               IF loc_data.st = "raise" THEN [db |-> db1, st |-> "raise", saved |-> saved]
               ELSE IF loc_data.st = "none" THEN [db |-> db1, st |-> "false", saved |-> saved]
               ELSE [db |-> [db1 EXCEPT !.app_info_localizations =
                                InsertAll(@, {InfoLocRow(loc, a, s) : loc \in loc_data.data},
                                          "localization_id")],
                     st |-> "true", saved |-> saved]))))

\* the loop over the versions: committed is the database as of the last
\* commit, working the database seen by the open transaction
RECURSIVE SyncVersions(_, _, _, _, _, _, _, _)
SyncVersions(committed, working, success, rem, versions, a, s, f) ==
  IF versions = <<>>
  THEN [db |-> working, st |-> IF success THEN "true" ELSE "false", saved |-> NotSaved]
  ELSE With([working EXCEPT !.app_versions =
               InsertOrReplace(@, VersionRow(Head(versions).id, a, s, Head(versions).platform),
                               "version_id")],
            LAMBDA w1 :
         With(fetch_app_store_version_localizations(rem, Head(versions).id, f),
              LAMBDA loc_data :
           IF loc_data.st = "raise"
           THEN [db |-> committed, st |-> "raise",
                 saved |-> SavedBy(loc_data, committed, NotSaved)]
           ELSE With(IF loc_data.st = "none"
                     THEN SyncVersions(committed, w1, FALSE, rem, Tail(versions), a, s, f)
                     ELSE With([w1 EXCEPT !.app_version_localizations =
                                  InsertAll(@, {VerLocRow(loc, Head(versions).id, a, s,
                                                          Head(versions).platform) :
                                                  loc \in loc_data.data},
                                            "localization_id")],
                               LAMBDA w2 :
                            SyncVersions(w2, w2, success, rem, Tail(versions), a, s, f)),
                     LAMBDA rest :
                  [rest EXCEPT !.saved = Latest(@, SavedBy(loc_data, committed, NotSaved))])))

SyncVersionAttr(dbase, rem, a, s, f, platform) ==
  With([dbase EXCEPT
          !.app_version_localizations = DeleteAppStorePlatform(@, a, s, platform),
          !.app_versions = DeleteAppStorePlatform(@, a, s, platform)],
       LAMBDA db1 :
    With(fetch_app_store_versions(rem, a, f, platform), LAMBDA versions_data :
      With(SavedBy(versions_data, db1, NotSaved), LAMBDA saved :
        IF versions_data.st = "raise" THEN [db |-> db1, st |-> "raise", saved |-> saved]
        ELSE IF versions_data.st = "none" THEN [db |-> db1, st |-> "false", saved |-> saved]
        ELSE With(SyncVersions(db1, db1, TRUE, rem, versions_data.data, a, s, f), LAMBDA r :
               [r EXCEPT !.saved = Latest(@, saved)]))))

sync_attribute_data(dbase, rem, attr, a, s, f, platform) ==
  IF attr \in InfoAttrs THEN SyncAppInfo(dbase, rem, a, s, f)
  ELSE IF attr \in VersionAttrs THEN SyncVersionAttr(dbase, rem, a, s, f, platform)
  ELSE IF attr = "screenshots"
       THEN With(fetch_screenshots(dbase, rem, a, s, f, platform), LAMBDA r :
              [db |-> r.db, st |-> IF r.st = "raise" THEN "raise" ELSE "true",
               saved |-> r.saved])
  ELSE [db |-> dbase, st |-> "true", saved |-> NotSaved]

(***************************************************************************)
(* The editing area of the dashboard (app.py main).                        *)
(***************************************************************************)
\* update_db_attribute: UPDATE table SET attribute = ? WHERE localization_id = ?
\* AND store_id = ?  (defined by app.py, called by no handler)
update_db_attribute(dbase, table, localization_id, attribute, value, s) ==
  [dbase EXCEPT ![table] =
     {IF r.localization_id = localization_id /\ r.store_id = s
      THEN [r EXCEPT ![attribute] = value] ELSE r : r \in @}]

\* get_attribute_data: the rows that hold the attribute for the app
get_attribute_data(dbase, attribute, a, s, platform) ==
  IF attribute \in InfoAttrs
  THEN {r \in dbase.app_info_localizations : r.app_id = a /\ r.store_id = s}
  ELSE {r \in dbase.app_version_localizations :
          r.app_id = a /\ r.store_id = s /\ (platform = None \/ r.platform = platform)}

LocaleOrder == <<"en", "fr">>

\* the rows of data in the order the form shows them
RECURSIVE RowsInOrder(_, _)
RowsInOrder(rows, locales) ==
  IF rows = {} THEN <<>>
  ELSE IF locales = <<>>
       THEN With(CHOOSE x \in rows : TRUE, LAMBDA r : <<r>> \o RowsInOrder(rows \ {r}, locales))
  ELSE IF {r \in rows : r.locale = Head(locales)} = {} THEN RowsInOrder(rows, Tail(locales))
  ELSE With(CHOOSE x \in rows : x.locale = Head(locales),
            LAMBDA r : <<r>> \o RowsInOrder(rows \ {r}, locales))

\* changes[loc_id] = user_text or None: the text of the edited locale is what
\* the user typed, the text of every other locale is the cached value
Changes(data, attr, el, ev) ==
  With(RowsInOrder(data, LocaleOrder), LAMBDA rows :
    [i \in 1..Len(rows) |->
       [loc_id |-> rows[i].localization_id,
        val |-> IF rows[i].locale = el THEN ev ELSE rows[i][attr]]])

\* the loop of Save Changes over the localizations: a patch that returns
\* False clears success, a patch that raises ends the handler; tried lists
\* the calls made, each with what it gave
RECURSIVE PatchAll(_, _, _, _, _, _)
PatchAll(rem, success, changes, attr, table, f) ==
  IF changes = <<>>
  THEN [rem |-> rem, st |-> IF success THEN "success" ELSE "failed", tried |-> <<>>]
  ELSE With(IF table = "app_info_localizations"
            THEN patch_app_info_localization(
                   rem, Head(changes).loc_id, [k \in {attr} |-> Head(changes).val], f)
            ELSE patch_app_store_version_localization(
                   rem, Head(changes).loc_id, [k \in {attr} |-> Head(changes).val], f),
            LAMBDA r :
         IF r.st = "raise"
         THEN [rem |-> r.rem, st |-> "raise",
               tried |-> <<[loc_id |-> Head(changes).loc_id, st |-> r.st]>>]
         ELSE With(PatchAll(r.rem, success /\ r.st = "true", Tail(changes), attr, table, f),
                   LAMBDA rest :
                [rest EXCEPT !.tried = <<[loc_id |-> Head(changes).loc_id, st |-> r.st]>>
                                       \o @]))

\* variant: the re-fetch is not guarded by success
SaveChanges_SyncAlways(dbase, rem, attr, a, s, platform, el, ev, f) ==
  LET data == get_attribute_data(dbase, attr, a, s, platform)
      table == IF attr \in InfoAttrs THEN "app_info_localizations"
               ELSE "app_version_localizations"
      changes == Changes(data, attr, el, ev)
      p == PatchAll(rem, TRUE, changes, attr, table, f)
  IN IF p.st # "raise"
     THEN LET r == sync_attribute_data(dbase, p.rem, attr, a, s, f, platform)
          IN [db |-> r.db, rem |-> p.rem, st |-> p.st, sync |-> r.st,
              changes |-> changes, tried |-> p.tried,
              saved |-> IF r.st = "raise" THEN r.saved ELSE {r.db}]
     ELSE [db |-> dbase, rem |-> p.rem, st |-> p.st, sync |-> "skipped",
           changes |-> changes, tried |-> p.tried,
           saved |-> NotSaved]

\* variant: after the patches the cache is left as it was, no re-fetch
SaveChanges_NoRefetch(dbase, rem, attr, a, s, platform, el, ev, f) ==
  LET data == get_attribute_data(dbase, attr, a, s, platform)
      table == IF attr \in InfoAttrs THEN "app_info_localizations"
               ELSE "app_version_localizations"
      changes == Changes(data, attr, el, ev)
      p == PatchAll(rem, TRUE, changes, attr, table, f)
  IN IF p.st = "success"
     THEN [db |-> dbase, rem |-> p.rem, st |-> "success", sync |-> "true",
           changes |-> changes, tried |-> p.tried,
           saved |-> {dbase}]
     ELSE [db |-> dbase, rem |-> p.rem, st |-> p.st, sync |-> "skipped",
           changes |-> changes, tried |-> p.tried,
           saved |-> NotSaved]

\* variant: the text the user typed is written to the cache with
\* update_db_attribute before the patches are sent
SaveChanges_LocalWrite(dbase, rem, attr, a, s, platform, el, ev, f) ==
  LET data == get_attribute_data(dbase, attr, a, s, platform)
      table == IF attr \in InfoAttrs THEN "app_info_localizations"
               ELSE "app_version_localizations"
      changes == Changes(data, attr, el, ev)
      edited == {r \in data : r.locale = el}
      db1 == IF edited = {} THEN dbase
             ELSE update_db_attribute(dbase, table, (CHOOSE r \in edited : TRUE).localization_id,
                                      attr, ev, s)
      p == PatchAll(rem, TRUE, changes, attr, table, f)
  IN IF p.st = "success"
     THEN LET r == sync_attribute_data(db1, p.rem, attr, a, s, f, platform)
          IN [db |-> r.db, rem |-> p.rem, st |-> "success", sync |-> r.st,
              changes |-> changes, tried |-> p.tried,
              saved |-> IF r.st = "raise" THEN r.saved ELSE {r.db}]
     ELSE [db |-> db1, rem |-> p.rem, st |-> p.st, sync |-> "skipped",
           changes |-> changes, tried |-> p.tried,
           saved |-> NotSaved]

\* Save Changes: patch every localization; only when every patch returned
\* True, re-fetch the scope with sync_attribute_data and call
\* sync_db_to_github (an exception of the re-fetch ends the handler before it)
SaveChanges(dbase, rem, attr, a, s, platform, el, ev, f) ==
  With(Changes(get_attribute_data(dbase, attr, a, s, platform), attr, el, ev), LAMBDA changes :
    With(PatchAll(rem, TRUE, changes, attr,
                  IF attr \in InfoAttrs THEN "app_info_localizations"
                  ELSE "app_version_localizations", f),
         LAMBDA p :
      IF p.st = "success"
      THEN With(sync_attribute_data(dbase, p.rem, attr, a, s, f, platform), LAMBDA r :
             [db |-> r.db, rem |-> p.rem, st |-> "success", sync |-> r.st,
              changes |-> changes, tried |-> p.tried,
              saved |-> IF r.st = "raise" THEN r.saved ELSE {r.db}])
      ELSE [db |-> dbase, rem |-> p.rem, st |-> p.st, sync |-> "skipped",
            changes |-> changes, tried |-> p.tried, saved |-> NotSaved]))

(***************************************************************************)
(* The faults an operation can meet: the requests about app A.             *)
(***************************************************************************)
FaultApps == {"A"}

\* a push that fails: the PUT is answered with a non-2xx status, or the
\* request ends in a network error
PushKinds == {"status", "raise"}

AppFaults(a) ==
  IF a \notin FaultApps THEN {}
  ELSE {<<"appInfos", a>>, <<"infoLocs", a>>, <<"versions", a>>,
        <<"verLocs", a, RemotePlatforms(a)[1]>>,
        <<"sets", a, RemotePlatforms(a)[1], "en">>}
       \cup {PushFault(k, <<"appInfos", a>>) : k \in PushKinds}

ScopeFaults(attr, a, platform) ==
  IF a \notin FaultApps THEN {}
  ELSE IF attr \in InfoAttrs
       THEN {<<"appInfos", a>>, <<"infoLocs", a>>}
            \cup {PushFault(k, <<"appInfos", a>>) : k \in PushKinds}
  ELSE IF attr \in VersionAttrs
       THEN {<<"versions", a>>, <<"verLocs", a, platform>>}
            \cup {PushFault(k, <<"versions", a>>) : k \in PushKinds}
  ELSE {<<"versions", a>>, <<"verLocs", a, platform>>, <<"sets", a, platform, "en">>}

\* the faults of a save: the patch of the edited locale, the last read of the re-fetch
SaveFaults(attr, a, platform, loc_id) ==
  {NoFault, TokenFault, <<"patch">> \o loc_id,
   IF attr \in InfoAttrs THEN <<"infoLocs", a>> ELSE <<"verLocs", a, platform>>}

SyncAttrs == {"subtitle", "description", "screenshots"}
SaveAttrs == {"subtitle", "description"}
EditApps == {"A"}
PlatformsOf(attr) == IF attr \in InfoAttrs THEN {None} ELSE {"IOS", "MAC_OS"}

(***************************************************************************)
(* State machine.                                                          *)
(***************************************************************************)
InfoAttributes(l) ==
  [locale |-> l, name |-> "v0", subtitle |-> "v0",
   privacyPolicyUrl |-> "v0", privacyChoicesUrl |-> "v0"]

VersionAttributes(l) ==
  [locale |-> l, description |-> "v0", keywords |-> "v0", marketingUrl |-> "v0",
   promotionalText |-> "v0", supportUrl |-> "v0", whatsNew |-> "v0"]

InitialRemote ==
  [listing |-> [s \in Stores |-> IF s = 1 THEN {"A", "B"} ELSE {"A"}],
   infoState |-> [i \in InfoIds |-> IF i = <<"A", "1">> THEN "READY_FOR_SALE"
                                    ELSE "PREPARE_FOR_SUBMISSION"],
   infoLoc |-> [x \in LiveInfoLocIds |-> InfoAttributes(x[3])],
   verLoc |-> [x \in VerLocIds |-> VersionAttributes(x[3])]]

NoOp ==
  [op |-> "init", store |-> 0, app |-> None, attr |-> None, platform |-> None,
   fault |-> NoFault, st |-> None, sync |-> None, trace |-> <<>>, changes |-> <<>>,
   listed |-> <<>>, before |-> {}, repeat |-> FALSE, saved |-> NotSaved, tried |-> <<>>]

\* the apps of store s that have a row in some table of the cache
CachedApps(dbase, s) ==
  {r.app_id : r \in {x \in dbase.apps : x.store_id = s}}
  \cup {r.app_id : r \in {x \in dbase.app_info_localizations : x.store_id = s}}
  \cup {r.app_id : r \in {x \in dbase.app_versions : x.store_id = s}}
  \cup {r.app_id : r \in {x \in dbase.app_version_localizations : x.store_id = s}}
  \cup {r.app_id : r \in {x \in dbase.app_screenshots : x.store_id = s}}

\* what "Fetch Data for Store" leaves in last: r is what the refresh returned,
\* dbase the cache it began with, before the record of the step before it.
\* The handler calls sync_db_to_github after the refresh unless an exception
\* of the refresh ended it.
FetchRecord(r, dbase, s, f, before) ==
  [NoOp EXCEPT !.op = "fetch_and_store_apps", !.store = s, !.fault = f,
               !.st = r.st, !.trace = r.trace, !.before = CachedApps(dbase, s),
               !.listed = r.listed,
               !.saved = IF r.st = "raise" THEN r.saved ELSE {r.db},
               !.repeat = /\ before.op = "fetch_and_store_apps"
                          /\ before.store = s
                          /\ before.fault = NoFault
                          /\ f = NoFault]

(***************************************************************************)
(* The cache file and its backup.  file is the content of the local file   *)
(* at DB_PATH, blob the content of the remote blob ("absent" when the repo *)
(* holds none); the version token (sha) of a blob is the hash of its       *)
(* content, so it is modelled by the content.  writer[p] is the position   *)
(* of process p inside sync_db_to_github with its locals, event the last   *)
(* step taken, startup the calls made at process start.                    *)
(***************************************************************************)
Writers == {1, 2}
IdleWriter == [pc |-> "idle", content |-> None, sha |-> None, before |-> None]
NoEvent == [op |-> "init", p |-> 0, content |-> None, sha |-> None, before |-> None,
            status |-> 0]

BackupIdle ==
  /\ file = "dbA"
  /\ blob = "dbA"
  /\ writer = [p \in Writers |-> IdleWriter]
  /\ event = NoEvent
  /\ startup = <<>>

\* no refresh is under way and nothing has been read
NoScope == [op |-> "none", attr |-> None, app |-> None, store |-> 0, platform |-> None,
            before |-> {}, after |-> {}]
NotRead == [rows |-> {}, during |-> FALSE]

ReaderIdle ==
  /\ commits = <<>>
  /\ scope = NoScope
  /\ seen = NotRead

\* no call is being looked at, no upload is under way
\* output holds what the call returned, and is empty before it returns
NoOutput == {}

CallIdle ==
  /\ input = None
  /\ output = NoOutput

NoJob == [pc |-> "idle", files |-> <<>>, idx |-> 0, ops |-> <<>>, op |-> 0, uploaded |-> 0,
          result |-> None]

UploadIdle ==
  /\ job = NoJob
  /\ sent = <<>>

\* no fetch_screenshots call under way, no two-session refresh under way
NoPool == [pc |-> "idle", platform |-> None, todo |-> <<>>, next |-> 1,
           all_screenshots |-> {}, timedout |-> {}, exc |-> FALSE, written |-> FALSE]

NoSession == [pc |-> "idle", fetched |-> {}]

PoolIdle ==
  /\ pool = NoPool
  /\ tasks = <<>>

RaceIdle == session = <<>>

\* the cache file at process start: the empty schema of initialize_database,
\* or the file an earlier full refresh of store 1 left
Init ==
  /\ BackupIdle
  /\ ReaderIdle
  /\ CallIdle
  /\ UploadIdle
  /\ PoolIdle
  /\ RaceIdle
  /\ remote = InitialRemote
  /\ steps = 0
  /\ \/ /\ db = EmptyDb
        /\ last = NoOp
     \/ \E r \in {fetch_and_store_apps(EmptyDb, InitialRemote, 1, NoFault)} :
          /\ db = r.db
          /\ last = FetchRecord(r, EmptyDb, 1, NoFault, NoOp)

\* the app selected in the sidebar is an app of the selected store in the cache
Selectable(a, s) == \E r \in db.apps : r.app_id = a /\ r.store_id = s

\* "Fetch Data for Store"
FetchStore ==
  /\ steps < MaxSteps
  /\ \E s \in Stores :
       \E f \in {NoFault, TokenFault, <<"apps">>}
                \cup UNION {AppFaults(a) : a \in remote.listing[s]} :
         \E r \in {fetch_and_store_apps(db, remote, s, f)} :
           /\ db' = r.db
           /\ last' = FetchRecord(r, db, s, f, last)
  /\ steps' = steps + 1
  /\ UNCHANGED <<remote, backupVars, readerVars, callVars, uploadVars, poolVars, raceVars>>

\* "Refresh" of the selected app, then sync_db_to_github
RefreshApp ==
  /\ steps < MaxSteps
  /\ \E s \in Stores, a \in Apps :
       /\ Selectable(a, s)
       /\ \E f \in {NoFault, TokenFault, PushFault("raise", <<"single_app">>)}
                   \cup AppFaults(a) :
            \E r \in {fetch_and_store_single_app(db, remote, a, s, f)} :
               /\ db' = r.db
               /\ last' = [NoOp EXCEPT !.op = "fetch_and_store_single_app", !.store = s,
                                       !.app = a, !.fault = f, !.st = r.st,
                                       !.saved = {r.db}]
  /\ steps' = steps + 1
  /\ UNCHANGED <<remote, backupVars, readerVars, callVars, uploadVars, poolVars, raceVars>>

\* "Sync" of one attribute; sync_db_to_github is called under `if success:`
SyncAttribute ==
  /\ steps < MaxSteps
  /\ \E s \in Stores, a \in EditApps, attr \in SyncAttrs :
       /\ Selectable(a, s)
       /\ \E platform \in PlatformsOf(attr) :
            \E f \in {NoFault, TokenFault} \cup ScopeFaults(attr, a, platform) :
              \E r \in {sync_attribute_data(db, remote, attr, a, s, f, platform)} :
                 /\ db' = r.db
                 /\ last' = [NoOp EXCEPT !.op = "sync_attribute_data", !.store = s, !.app = a,
                                         !.attr = attr, !.platform = platform, !.fault = f,
                                         !.st = r.st,
                                         !.saved = IF r.st = "true" THEN {r.db}
                                                   ELSE r.saved]
  /\ steps' = steps + 1
  /\ UNCHANGED <<remote, backupVars, readerVars, callVars, uploadVars, poolVars, raceVars>>

\* "Save Changes" of one attribute: the user retypes or empties one locale
Save ==
  /\ steps < MaxSteps
  /\ \E s \in Stores, a \in EditApps, attr \in SaveAttrs :
       /\ Selectable(a, s)
       /\ \E platform \in PlatformsOf(attr) :
            \E row \in get_attribute_data(db, attr, a, s, platform), ev \in {"v1", None} :
              \E f \in SaveFaults(attr, a, platform, row.localization_id) :
                \E r \in {SaveChanges(db, remote, attr, a, s, platform, row.locale, ev, f)} :
                   /\ db' = r.db
                   /\ remote' = r.rem
                   /\ last' = [NoOp EXCEPT !.op = "save", !.store = s, !.app = a,
                                           !.attr = attr, !.platform = platform,
                                           !.fault = f, !.st = r.st, !.sync = r.sync,
                                           !.changes = r.changes, !.saved = r.saved,
                                           !.tried = r.tried]
  /\ steps' = steps + 1
  /\ UNCHANGED <<backupVars, readerVars, callVars, uploadVars, poolVars, raceVars>>

\* the vendor side changes: an attribute of a localization is edited
RemoteEdit ==
  /\ steps < MaxSteps
  /\ \/ \E x \in DOMAIN remote.infoLoc, k \in {"name", "subtitle"} :
          /\ x[1] \in EditApps
          /\ remote' = [remote EXCEPT !.infoLoc[x][k] = IF @ = "v0" THEN "v1" ELSE "v0"]
     \/ \E x \in DOMAIN remote.verLoc, k \in {"description", "keywords"} :
          /\ x[1] \in EditApps
          /\ remote' = [remote EXCEPT !.verLoc[x][k] = IF @ = "v0" THEN "v1" ELSE "v0"]
  /\ steps' = steps + 1
  /\ last' = [NoOp EXCEPT !.op = "remote"]
  /\ UNCHANGED <<db, backupVars, readerVars, callVars, uploadVars, poolVars, raceVars>>

\* the vendor side changes: an app appears in or disappears from a listing,
\* or the account of a store loses all its apps
RemoteListing ==
  /\ steps < MaxSteps
  /\ \E s \in Stores :
       \/ \E a \in Apps :
            remote' = [remote EXCEPT !.listing[s] = IF a \in @ THEN @ \ {a} ELSE @ \cup {a}]
       \/ /\ remote.listing[s] # {}
          /\ remote' = [remote EXCEPT !.listing[s] = {}]
  /\ steps' = steps + 1
  /\ last' = [NoOp EXCEPT !.op = "remote"]
  /\ UNCHANGED <<db, backupVars, readerVars, callVars, uploadVars, poolVars, raceVars>>

\* the vendor side changes: an app-info resource changes its state, or the
\* editable resource of app A goes live while its other resource becomes the
\* editable one
OtherState(st) ==
  IF st = "PREPARE_FOR_SUBMISSION" THEN "READY_FOR_SALE" ELSE "PREPARE_FOR_SUBMISSION"

RemoteInfoState ==
  /\ steps < MaxSteps
  /\ \/ \E i \in InfoIds :
          remote' = [remote EXCEPT !.infoState[i] = OtherState(@)]
     \/ /\ remote.infoState[<<"A", "1">>] # remote.infoState[<<"A", "2">>]
        /\ remote' = [remote EXCEPT !.infoState[<<"A", "1">>] = OtherState(@),
                                    !.infoState[<<"A", "2">>] = OtherState(@)]
  /\ steps' = steps + 1
  /\ last' = [NoOp EXCEPT !.op = "remote"]
  /\ UNCHANGED <<db, backupVars, readerVars, callVars, uploadVars, poolVars, raceVars>>

\* the id the vendor gives a version localization that is created again
RecreatedIds == [x \in {<<"A", "IOS", "en">>} |-> <<"A", "IOS", "en-2">>]

\* the vendor side changes: a version localization is deleted and created
\* again for the same locale, so the version still has one localization per
\* locale and the localization has a new id
RemoteRecreate ==
  /\ steps < MaxSteps
  /\ \E x \in DOMAIN RecreatedIds \cap DOMAIN remote.verLoc :
       remote' = [remote EXCEPT !.verLoc =
                    [y \in (DOMAIN @ \ {x}) \cup {RecreatedIds[x]} |->
                       IF y = RecreatedIds[x] THEN @[x] ELSE @[y]]]
  /\ steps' = steps + 1
  /\ last' = [NoOp EXCEPT !.op = "remote"]
  /\ UNCHANGED <<db, backupVars, readerVars, callVars, uploadVars, poolVars, raceVars>>

\* the localizations the vendor side can lose: the locale is removed from the
\* editable app-info resource of app A
RemovedIds == {<<"A", "2", "fr">>}

\* the vendor side changes: a locale is removed from an app-info resource
RemoteRemove ==
  /\ steps < MaxSteps
  /\ \E x \in RemovedIds \cap DOMAIN remote.infoLoc :
       remote' = [remote EXCEPT !.infoLoc = [y \in DOMAIN @ \ {x} |-> @[y]]]
  /\ steps' = steps + 1
  /\ last' = [NoOp EXCEPT !.op = "remote"]
  /\ UNCHANGED <<db, backupVars, readerVars, callVars, uploadVars, poolVars, raceVars>>

Next ==
  \/ FetchStore
  \/ RefreshApp
  \/ SyncAttribute
  \/ Save
  \/ RemoteEdit
  \/ RemoteListing
  \/ RemoteInfoState
  \/ RemoteRecreate
  \/ RemoteRemove

Spec == Init /\ [][Next]_vars

(***************************************************************************)
(* The backup of the cache file (main.py load_db_from_github and           *)
(* sync_db_to_github) and the start of the process (app.py main).          *)
(*                                                                         *)
(* A file content is one of: "missing" (no file), "zero" (0 bytes),        *)
(* "small" (a file below 1000 bytes), "corrupt" (a file of full size that  *)
(* is no SQLite database), "dbA" (the database initialize_database and     *)
(* create_default_admin leave) and "dbB" (the database after a commit of   *)
(* the engine).                                                            *)
(***************************************************************************)
FileContents == {"missing", "zero", "small", "corrupt", "dbA", "dbB"}
MinPushSize == 1000

\* os.path.exists and os.path.getsize
exists(c) == c # "missing"
getsize(c) == CASE c \in {"missing", "zero"} -> 0
                [] c = "small" -> 512
                [] OTHER -> 8192

\* the file opens as a SQLite database that passes an integrity check
IntegrityOk(c) == c \in {"dbA", "dbB"}

\* variant: the safety check on the size is missing
SkipPush_Never(c) == FALSE

\* the safety check of sync_db_to_github: no push of a missing or small file
SkipPush(c) == ~exists(c) \/ getsize(c) < MinPushSize

\* the status that GET /repos/{repo}/contents/{db_path} can answer with
GetStatuses(b) == (IF b = "absent" THEN {404} ELSE {200}) \cup {500}

\* the vendor accepts a PUT on an existing blob only with the sha of its
\* current content, and a PUT without sha only when there is no blob
Accepts(b, sha) == IF b = "absent" THEN sha = None ELSE sha = b

BackupEvent(op, p, content, sha, before, status) ==
  [op |-> op, p |-> p, content |-> content, sha |-> sha, before |-> before,
   status |-> status]

\* the engine commits to the cache file, or the file is removed or damaged
LocalChange ==
  /\ \E c \in {"missing", "small", "corrupt", "dbB"} :
       /\ c # file
       /\ file' = c
  /\ event' = BackupEvent("local", 0, None, None, None, 0)
  /\ UNCHANGED <<blob, writer, startup, engineVars, readerVars, callVars, uploadVars,
                 poolVars, raceVars>>

\* sync_db_to_github, up to the read of the file
PersistCheck(p) ==
  /\ writer[p].pc = "idle"
  /\ IF SkipPush(file)
     THEN /\ event' = BackupEvent("skip", p, None, None, None, 0)
          /\ UNCHANGED writer
     ELSE /\ writer' = [writer EXCEPT ![p] = [IdleWriter EXCEPT !.pc = "get", !.content = file]]
          /\ event' = BackupEvent("read", p, file, None, None, 0)
  /\ UNCHANGED <<file, blob, startup, engineVars, readerVars, callVars, uploadVars,
                 poolVars, raceVars>>

\* sync_db_to_github: requests.get(api_url); status 0 is a network error,
\* which leaves the function as an exception
PersistGet(p) ==
  /\ writer[p].pc = "get"
  /\ \E status \in GetStatuses(blob) \cup {0} :
       /\ writer' = [writer EXCEPT ![p] =
                       IF status = 0 THEN IdleWriter
                       ELSE [@ EXCEPT !.pc = "put",
                                      !.sha = IF status = 200 THEN blob ELSE None,
                                      !.before = blob]]
       /\ event' = BackupEvent("get", p, writer[p].content,
                               IF status = 200 THEN blob ELSE None, blob, status)
  /\ UNCHANGED <<file, blob, startup, engineVars, readerVars, callVars, uploadVars,
                 poolVars, raceVars>>

\* sync_db_to_github: requests.put(api_url) with the sha when one was read;
\* the request can also be answered with an error status or end in a
\* network error
PersistPut(p) ==
  /\ writer[p].pc = "put"
  /\ \E fault \in {"none", "status", "raise"} :
       \E accepted \in {fault = "none" /\ Accepts(blob, writer[p].sha)} :
         /\ blob' = IF accepted THEN writer[p].content ELSE blob
         /\ event' = BackupEvent("put", p, writer[p].content, writer[p].sha,
                                 writer[p].before,
                                 IF accepted THEN (IF blob = "absent" THEN 201 ELSE 200)
                                 ELSE IF fault = "raise" THEN 0
                                 ELSE IF fault = "status" THEN 500
                                 ELSE IF writer[p].sha = None THEN 422 ELSE 409)
  /\ writer' = [writer EXCEPT ![p] = IdleWriter]
  /\ UNCHANGED <<file, startup, engineVars, readerVars, callVars, uploadVars, poolVars, raceVars>>

\* load_db_from_github: on status 200 the bytes that requests.get(download_url)
\* returned are written to db_path; the transfer can deliver the blob, no
\* bytes, or bytes that are no database
load_db_from_github ==
  /\ \E status \in GetStatuses(blob) \cup {0} :
       IF status = 200
       THEN \E content \in {blob, "zero", "corrupt"} :
              /\ file' = content
              /\ event' = BackupEvent("load", 0, content, None, file, status)
       ELSE /\ event' = BackupEvent("load", 0, None, None, file, status)
            /\ UNCHANGED file
  /\ UNCHANGED <<blob, writer, startup, engineVars, readerVars, callVars, uploadVars,
                 poolVars, raceVars>>

\* the start of the dashboard process: `from main import ...` runs the module
\* level of main.py, then main() calls check_database_exists,
\* initialize_database when the stores table is missing, create_default_admin
\* and login.  A file that is no database ends check_database_exists with
\* sqlite3.DatabaseError.
StartupCalls(c) ==
  IF c \in {"small", "corrupt"} THEN <<"check_database_exists">>
  ELSE IF c \in {"missing", "zero"}
       THEN <<"check_database_exists", "initialize_database", "create_default_admin", "login">>
  ELSE <<"check_database_exists", "create_default_admin", "login">>

ProcessStart ==
  /\ startup = <<>>
  /\ startup' = StartupCalls(file)
  /\ file' = IF file \in {"missing", "zero"} THEN "dbA" ELSE file
  /\ event' = BackupEvent("start", 0, None, None, file, 0)
  /\ UNCHANGED <<blob, writer, engineVars, readerVars, callVars, uploadVars, poolVars, raceVars>>

BackupInit ==
  /\ db = EmptyDb
  /\ remote = InitialRemote
  /\ last = NoOp
  /\ steps = 0
  /\ ReaderIdle
  /\ CallIdle
  /\ UploadIdle
  /\ PoolIdle
  /\ RaceIdle
  /\ file \in {"missing", "dbA"}
  /\ blob \in {"absent", "dbA"}
  /\ writer = [p \in Writers |-> IdleWriter]
  /\ event = NoEvent
  /\ startup = <<>>

BackupNext ==
  \/ LocalChange
  \/ \E p \in Writers : PersistCheck(p)
  \/ \E p \in Writers : PersistGet(p)
  \/ \E p \in Writers : PersistPut(p)
  \/ load_db_from_github
  \/ ProcessStart

BackupSpec == BackupInit /\ [][BackupNext]_vars

(***************************************************************************)
(* A refresh taken commit by commit.  Every `with get_db_connection()`     *)
(* block of a refresh ends with conn.commit(), so the refresh moves the    *)
(* cache file through the states it commits, and a reader on a connection  *)
(* of its own (another session of the dashboard) reads the state of the    *)
(* last commit.  commits holds the states the running refresh still has to *)
(* commit, scope what is refreshed with the rows a reader gets before and  *)
(* after the refresh, seen what the reader got last.                       *)
(***************************************************************************)
\* sync_attribute_data of an app-info attribute: the DELETE is committed,
\* then the INSERTs of all localizations are committed together
SyncAppInfoCommits(dbase, rem, a, s, f) ==
  With(SyncAppInfo(dbase, rem, a, s, f), LAMBDA r :
    With([dbase EXCEPT !.app_info_localizations = DeleteAppStore(@, a, s)], LAMBDA db1 :
      IF r.db = db1 THEN <<db1>> ELSE <<db1, r.db>>))

\* process_app: the commit of the four DELETEs, of the apps row, of the
\* app-info localizations, and the state it leaves (the commits of the single
\* versions between the last two are left out)
ProcessAppCommits(dbase, rem, app, s, f) ==
  With(DeleteOldData(dbase, app.id, s), LAMBDA db1 :
    With([db1 EXCEPT !.apps = InsertOrReplace(@, AppRow(app.id, s, app.name), "app_id")],
         LAMBDA db2 :
      With(ProcessAppInfo(db2, rem, app.id, s, f), LAMBDA r3 :
        With(process_app(dbase, rem, app, s, f), LAMBDA r :
          <<db1, db2, r3.db, r.db>>))))

ReaderFaults(a) == {NoFault, TokenFault, <<"infoLocs", a>>}

ScopeOf(op, attr, a, s, platform, dbase, final) ==
  [op |-> op, attr |-> attr, app |-> a, store |-> s, platform |-> platform,
   before |-> get_attribute_data(dbase, attr, a, s, platform),
   after |-> get_attribute_data(final, attr, a, s, platform)]

\* "Sync" of an app-info attribute begins
BeginSync ==
  /\ steps < MaxSteps
  /\ commits = <<>>
  /\ \E s \in Stores, a \in EditApps :
       /\ Selectable(a, s)
       /\ \E f \in ReaderFaults(a) :
            \E cs \in {SyncAppInfoCommits(db, remote, a, s, f)} :
              /\ commits' = cs
              /\ scope' = ScopeOf("sync_attribute_data", "subtitle", a, s, None,
                                  db, cs[Len(cs)])
  /\ seen' = NotRead
  /\ steps' = steps + 1
  /\ UNCHANGED <<db, remote, last, backupVars, callVars, uploadVars, poolVars, raceVars>>

\* process_app of a listed app begins (inside a full-store or a single-app
\* refresh); the reader looks at an app-info or at a version attribute
BeginRefresh ==
  /\ steps < MaxSteps
  /\ commits = <<>>
  /\ \E s \in Stores, a \in EditApps :
       /\ Selectable(a, s)
       /\ \E f \in ReaderFaults(a), attr \in {"subtitle", "description"} :
            \E cs \in {ProcessAppCommits(db, remote, [id |-> a, name |-> AppName(a)], s, f)} :
              /\ commits' = cs
              /\ scope' = ScopeOf("process_app", attr, a, s,
                                  IF attr \in InfoAttrs THEN None ELSE "IOS",
                                  db, cs[Len(cs)])
  /\ seen' = NotRead
  /\ steps' = steps + 1
  /\ UNCHANGED <<db, remote, last, backupVars, callVars, uploadVars, poolVars, raceVars>>

\* conn.commit(): the next state of the running refresh becomes the cache
Commit ==
  /\ commits # <<>>
  /\ db' = Head(commits)
  /\ commits' = Tail(commits)
  /\ UNCHANGED <<remote, last, steps, scope, seen, backupVars, callVars, uploadVars,
                 poolVars, raceVars>>

\* the reader calls get_attribute_data for the scope of the refresh, at any
\* point from its beginning on
Read ==
  /\ scope.op # "none"
  /\ seen' = [rows |-> get_attribute_data(db, scope.attr, scope.app, scope.store,
                                          scope.platform),
              during |-> TRUE]
  /\ UNCHANGED <<db, remote, last, steps, commits, scope, backupVars, callVars, uploadVars,
                 poolVars, raceVars>>

ReaderInit ==
  /\ Init
  /\ db # EmptyDb

ReaderNext ==
  \/ BeginSync
  \/ BeginRefresh
  \/ Commit
  \/ Read
  \/ RemoteEdit

ReaderSpec == ReaderInit /\ [][ReaderNext]_vars

(***************************************************************************)
(* One call of patch_app_info_localization or of                           *)
(* patch_app_store_version_localization (main.py), for every attribute map *)
(* of up to MaxAttrs entries: the keys are the internal attribute names    *)
(* and one name the mapping table does not hold, the values a text, the    *)
(* empty text, or None.  output is the payload handed to patch.            *)
(***************************************************************************)
MaxAttrs == 2

PatchKeys == InfoAttrs \cup VersionAttrs \cup {"locale"}
PatchValues == {None, "", "v1"}
PatchTypes == {"appInfoLocalizations", "appStoreVersionLocalizations"}

AttributeMaps ==
  UNION {[D -> PatchValues] : D \in {S \in SUBSET PatchKeys : Cardinality(S) <= MaxAttrs}}

\* the engine and the other processes are at rest
EngineIdle ==
  /\ db = EmptyDb
  /\ remote = InitialRemote
  /\ last = NoOp
  /\ steps = 0

PatchInit ==
  /\ EngineIdle
  /\ BackupIdle
  /\ ReaderIdle
  /\ UploadIdle
  /\ PoolIdle
  /\ RaceIdle
  /\ input \in [type : PatchTypes, localization_id : {<<"A", "2", "en">>},
                 attributes : AttributeMaps]
  /\ output = NoOutput

\* the function builds its payload
BuildPayload ==
  /\ output = NoOutput
  /\ output' = {PatchPayload(input.type, input.localization_id, input.attributes)}
  /\ UNCHANGED <<input, engineVars, backupVars, readerVars, uploadVars, poolVars, raceVars>>

PatchNext == BuildPayload

PatchSpec == PatchInit /\ [][PatchNext]_vars

(***************************************************************************)
(* One call of fetch_all_apps (main.py) over a listing that the vendor     *)
(* serves in up to three pages: every page holds some apps and the link to *)
(* the next page or none, and the links end (a listing is finite).  The    *)
(* request of one page can fail.  output is what the call returns.         *)
(***************************************************************************)
PageUrls == {"apps", "apps?cursor=2", "apps?cursor=3"}
PageData == {<<>>, <<"A">>, <<"B", "C">>}
PageBodies == [data : PageData, next : PageUrls \cup {None}]

\* following the links from url ends within n pages
RECURSIVE LinksEnd(_, _, _)
LinksEnd(pages, url, n) ==
  IF url = None THEN TRUE
  ELSE IF n = 0 THEN FALSE
  ELSE LinksEnd(pages, pages[url].next, n - 1)

ListFaults == {NoFault, TokenFault} \cup {<<url>> : url \in PageUrls}

ListInit ==
  /\ EngineIdle
  /\ BackupIdle
  /\ ReaderIdle
  /\ UploadIdle
  /\ PoolIdle
  /\ RaceIdle
  /\ input \in [pages : {pages \in [PageUrls -> PageBodies] :
                            LinksEnd(pages, "apps", Cardinality(PageUrls))},
                 fault : ListFaults]
  /\ output = NoOutput

\* the call returns
ListApps ==
  /\ output = NoOutput
  /\ output' = {FetchAllPages(input.pages, input.fault)}
  /\ UNCHANGED <<input, engineVars, backupVars, readerVars, uploadVars, poolVars, raceVars>>

ListNext == ListApps

ListSpec == ListInit /\ [][ListNext]_vars

(***************************************************************************)
(* upload_screenshots_dashboard (main.py), one action per request of the   *)
(* loop over the files.  job is the position of the call: the files it was *)
(* given, the index of the file under way, the upload operations the       *)
(* placeholder of that file returned and the index of the next one, the    *)
(* count of finished files and, at the end, the result.  sent lists the    *)
(* requests made for the files, each with the status it was answered with  *)
(* (0: the request ended in a network error).                              *)
(***************************************************************************)
UploadBatches ==
  {<<[name |-> "one.png", bytes |-> <<1, 2, 3>>]>>,
   <<[name |-> "one.png", bytes |-> <<1, 2, 3>>], [name |-> "two.png", bytes |-> <<4, 5>>]>>}

\* the uploadOperations a placeholder for a file of n bytes can come with:
\* none, the file in one part, or the file in two parts
UploadOperations(n) ==
  {<<>>, <<[offset |-> 0, length |-> n]>>}
  \cup {<<[offset |-> 0, length |-> k], [offset |-> k, length |-> n - k]>> : k \in 1..(n - 1)}

\* file_bytes[start:start + length]
Chunk(file_bytes, start, length) == SubSeq(file_bytes, start + 1, start + length)

\* variant: the status of a chunk upload is not looked at
ChunkFailed_Never(status) == FALSE

\* `if up_resp.status_code >= 400`
ChunkFailed(status) == status >= 400

UploadRequest(req, idx, ops, start, length, body, status) ==
  [req |-> req, file |-> idx, ops |-> ops, offset |-> start, length |-> length,
   chunk |-> body, status |-> status]

\* the call ends: False is returned, or a RequestException leaves it as
\* AppleAPIError
UploadEnds(result) == [job EXCEPT !.pc = "done", !.result = result]

\* the call up to the loop over the files: the token, the version, the
\* localization, the screenshot set and, for UPDATE, the deletion of the old
\* screenshots; any of them can end the call
UploadBegin ==
  /\ job.pc = "idle"
  /\ \E files \in UploadBatches, prepared \in {"ok", "false", "raise"} :
       job' = IF prepared = "ok"
              THEN [NoJob EXCEPT !.pc = "create", !.files = files, !.idx = 1]
              ELSE [NoJob EXCEPT !.pc = "done", !.result = prepared]
  /\ UNCHANGED <<sent, engineVars, backupVars, readerVars, callVars, poolVars, raceVars>>

\* POST /appScreenshots: the placeholder of the file under way
CreatePlaceholder ==
  /\ job.pc = "create"
  /\ \E status \in {201, 500, 0} :
       IF status = 201
       THEN \E upload_ops \in UploadOperations(Len(job.files[job.idx].bytes)) :
              /\ sent' = Append(sent, UploadRequest("create", job.idx, upload_ops, 0, 0,
                                                    <<>>, status))
              /\ job' = [job EXCEPT !.pc = IF upload_ops = <<>> THEN "finalize" ELSE "upload",
                                      !.ops = upload_ops, !.op = 1]
       ELSE /\ sent' = Append(sent, UploadRequest("create", job.idx, <<>>, 0, 0, <<>>, status))
            /\ job' = UploadEnds(IF status = 0 THEN "raise" ELSE "false")
  /\ UNCHANGED <<engineVars, backupVars, readerVars, callVars, poolVars, raceVars>>

\* one upload operation: the chunk of the file is sent
UploadChunk ==
  /\ job.pc = "upload"
  /\ \E status \in {200, 500, 0} :
       /\ sent' = Append(sent, UploadRequest("upload", job.idx, <<>>,
                                             job.ops[job.op].offset, job.ops[job.op].length,
                                             Chunk(job.files[job.idx].bytes,
                                                   job.ops[job.op].offset,
                                                   job.ops[job.op].length),
                                             status))
       /\ job' = IF status = 0 THEN UploadEnds("raise")
                 ELSE IF ChunkFailed(status) THEN UploadEnds("false")
                 ELSE IF job.op < Len(job.ops) THEN [job EXCEPT !.op = @ + 1]
                 ELSE [job EXCEPT !.pc = "finalize"]
  /\ UNCHANGED <<engineVars, backupVars, readerVars, callVars, poolVars, raceVars>>

\* PATCH /appScreenshots/{id} with uploaded: true, then the next file
Finalize ==
  /\ job.pc = "finalize"
  /\ \E status \in {200, 500, 0} :
       /\ sent' = Append(sent, UploadRequest("finalize", job.idx, <<>>, 0, 0, <<>>, status))
       /\ job' = IF status = 0 THEN UploadEnds("raise")
                 ELSE IF status # 200 THEN UploadEnds("false")
                 ELSE IF job.idx < Len(job.files)
                      THEN [job EXCEPT !.pc = "create", !.idx = @ + 1, !.ops = <<>>, !.op = 0,
                                       !.uploaded = @ + 1]
                 ELSE [job EXCEPT !.pc = "done", !.uploaded = @ + 1, !.result = "true"]
  /\ UNCHANGED <<engineVars, backupVars, readerVars, callVars, poolVars, raceVars>>

UploadInit ==
  /\ EngineIdle
  /\ BackupIdle
  /\ ReaderIdle
  /\ CallIdle
  /\ UploadIdle
  /\ PoolIdle
  /\ RaceIdle

UploadNext ==
  \/ UploadBegin
  \/ CreatePlaceholder
  \/ UploadChunk
  \/ Finalize

UploadSpec == UploadInit /\ [][UploadNext]_vars

(***************************************************************************)
(* fetch_screenshots (main.py) with its thread pool.  The main thread      *)
(* submits one task per localization, takes the result of every future in  *)
(* the order of submission, waiting at most 40 seconds for each, leaves    *)
(* the `with ThreadPoolExecutor` block, which waits for every task, and    *)
(* then writes app_screenshots.  tasks lists the submitted tasks in the    *)
(* order of their futures; pool is the position of the main thread with    *)
(* the localizations still to submit (todo), the index of the next future  *)
(* (next), the rows taken so far (all_screenshots), the futures that timed *)
(* out and whether an exception is on its way out of the block (exc).      *)
(***************************************************************************)
max_workers == 6

PoolApp == "A"
PoolStore == 1

\* the cache the call starts on: what a full refresh of the store left
PoolDb == fetch_and_store_apps(EmptyDb, InitialRemote, PoolStore, NoFault).db

\* the localizations of the versions of the app, version by version
PoolOrder ==
  << <<PoolApp, "IOS", "en">>, <<PoolApp, "IOS", "fr">>,
     <<PoolApp, "MAC_OS", "en">>, <<PoolApp, "MAC_OS", "fr">> >>

Localizations(rem, platform) ==
  SelectSeq(PoolOrder,
            LAMBDA x : x \in DOMAIN rem.verLoc /\ (platform = None \/ x[2] = platform))

Finished(t) == t.st \in {"done", "raised"}

\* variant: the pool is shut down without waiting for its tasks
Joined_NoWait(ts) == TRUE

\* the end of the `with ThreadPoolExecutor` block: shutdown(wait=True)
Joined(ts) == \A i \in 1..Len(ts) : Finished(ts[i])

\* where the main thread goes once nothing is left to submit
AfterSubmit(todo, ts) ==
  IF todo # <<>> THEN "submit" ELSE IF ts = <<>> THEN "join" ELSE "collect"

\* the call up to the pool: no token or no version data returns [] without a
\* write, an exception of the versions request leaves the call
PoolBegin ==
  /\ pool.pc = "idle"
  /\ \E platform \in {None, "IOS", "MAC_OS"}, versions_data \in {"ok", "none", "raise"} :
       pool' = IF versions_data = "ok"
               THEN [NoPool EXCEPT !.platform = platform,
                                   !.todo = Localizations(remote, platform),
                                   !.pc = AfterSubmit(Localizations(remote, platform), <<>>)]
               ELSE [NoPool EXCEPT !.platform = platform, !.pc = "done",
                                   !.exc = (versions_data = "raise")]
  /\ UNCHANGED <<tasks, engineVars, backupVars, readerVars, callVars, uploadVars, raceVars>>

\* executor.submit(process_localization, loc, platform_name, token)
Submit ==
  /\ pool.pc = "submit"
  /\ tasks' = Append(tasks, [loc |-> Head(pool.todo), st |-> "queued", rows |-> {}])
  /\ pool' = [pool EXCEPT !.todo = Tail(@), !.pc = AfterSubmit(Tail(pool.todo), tasks')]
  /\ UNCHANGED <<engineVars, backupVars, readerVars, callVars, uploadVars, raceVars>>

\* the request for the localizations of the next version raises: the
\* exception leaves the block, which first waits for the tasks submitted
SubmitRaises ==
  /\ pool.pc = "submit"
  /\ Head(pool.todo)[3] = "en"
  /\ pool' = [pool EXCEPT !.pc = "join", !.exc = TRUE]
  /\ UNCHANGED <<tasks, engineVars, backupVars, readerVars, callVars, uploadVars, raceVars>>

\* a worker thread of the pool takes a queued task
TaskStart ==
  /\ \E i \in 1..Len(tasks) :
       /\ tasks[i].st = "queued"
       /\ Cardinality({j \in 1..Len(tasks) : tasks[j].st = "running"}) < max_workers
       /\ tasks' = [tasks EXCEPT ![i].st = "running"]
  /\ UNCHANGED <<pool, engineVars, backupVars, readerVars, callVars, uploadVars, raceVars>>

\* process_localization returns the rows of its localization, or raises
TaskFinish ==
  /\ \E i \in 1..Len(tasks) :
       /\ tasks[i].st = "running"
       /\ \E f \in {NoFault, <<"sets">> \o tasks[i].loc} :
          \E r \in {process_localization(
                      [id |-> tasks[i].loc, attributes |-> remote.verLoc[tasks[i].loc]],
                      tasks[i].loc[2], PoolApp, PoolStore, f)} :
            tasks' = [tasks EXCEPT ![i] = IF r.st = "raise" THEN [@ EXCEPT !.st = "raised"]
                                          ELSE [@ EXCEPT !.st = "done", !.rows = r.data]]
  /\ UNCHANGED <<pool, engineVars, backupVars, readerVars, callVars, uploadVars, raceVars>>

\* all_screenshots.extend(future.result(timeout=40)) under try/except: the
\* rows of a finished task are taken, a task that raised or that is not
\* finished when the 40 seconds are over is passed by
Collect ==
  /\ pool.pc = "collect"
  /\ pool' = [pool EXCEPT
                !.all_screenshots = IF tasks[pool.next].st = "done"
                                    THEN @ \cup tasks[pool.next].rows ELSE @,
                !.timedout = IF Finished(tasks[pool.next]) THEN @ ELSE @ \cup {pool.next},
                !.next = @ + 1,
                !.pc = IF pool.next = Len(tasks) THEN "join" ELSE "collect"]
  /\ UNCHANGED <<tasks, engineVars, backupVars, readerVars, callVars, uploadVars, raceVars>>

\* the main thread leaves the `with` block
Join ==
  /\ pool.pc = "join"
  /\ Joined(tasks)
  /\ pool' = [pool EXCEPT !.pc = IF pool.exc THEN "done" ELSE "write"]
  /\ UNCHANGED <<tasks, engineVars, backupVars, readerVars, callVars, uploadVars, raceVars>>

\* DELETE the screenshots of the scope, INSERT OR IGNORE the rows taken,
\* commit: one transaction of the main thread
Write ==
  /\ pool.pc = "write"
  /\ db' = [db EXCEPT !.app_screenshots =
              InsertAllOrIgnore(
                IF pool.platform # None
                THEN DeleteAppStorePlatform(@, PoolApp, PoolStore, pool.platform)
                ELSE DeleteAppStore(@, PoolApp, PoolStore),
                pool.all_screenshots, "id")]
  /\ pool' = [pool EXCEPT !.pc = "done", !.written = TRUE]
  /\ UNCHANGED <<tasks, remote, last, steps, backupVars, readerVars, callVars, uploadVars,
                 raceVars>>

PoolInit ==
  /\ db = PoolDb
  /\ remote = InitialRemote
  /\ last = NoOp
  /\ steps = 0
  /\ BackupIdle
  /\ ReaderIdle
  /\ CallIdle
  /\ UploadIdle
  /\ PoolIdle
  /\ RaceIdle

PoolNext ==
  \/ PoolBegin
  \/ Submit
  \/ SubmitRaises
  \/ TaskStart
  \/ TaskFinish
  \/ Collect
  \/ Join
  \/ Write

PoolSpec == PoolInit /\ [][PoolNext]_vars

(***************************************************************************)
(* sync_attribute_data (app.py) for an app-info attribute, run by two      *)
(* browser sessions on the same app and store.  Each session commits its   *)
(* DELETE, reads the localizations from the vendor, and commits its        *)
(* INSERT OR REPLACEs in a second transaction; the commits of the two      *)
(* sessions and the changes on the vendor side come in any order.          *)
(* session[i] is the position of session i with the rows it fetched.       *)
(***************************************************************************)
Sessions == {1, 2}
RaceApp == "A"
RaceStore == 1

\* the DELETE of the scope, committed
RaceDelete ==
  /\ \E i \in Sessions :
       /\ session[i].pc = "idle"
       /\ session' = [session EXCEPT ![i].pc = "deleted"]
  /\ db' = [db EXCEPT !.app_info_localizations = DeleteAppStore(@, RaceApp, RaceStore)]
  /\ UNCHANGED <<remote, last, steps, backupVars, readerVars, callVars, uploadVars, poolVars>>

\* fetch_app_info and fetch_app_info_localizations: what the vendor holds now
RaceFetch ==
  /\ \E i \in Sessions :
       /\ session[i].pc = "deleted"
       /\ \E app_info_data \in {fetch_app_info(remote, RaceApp, NoFault)} :
            \E loc_data \in {fetch_app_info_localizations(
                               remote,
                               app_info_data.data[AppInfoIndex(app_info_data.data)],
                               NoFault)} :
              session' = [session EXCEPT
                            ![i] = [pc |-> "fetched",
                                    fetched |-> {InfoLocRow(loc, RaceApp, RaceStore) :
                                                   loc \in loc_data.data}]]
  /\ UNCHANGED <<engineVars, backupVars, readerVars, callVars, uploadVars, poolVars>>

\* the INSERT OR REPLACE of every fetched localization, committed
RaceInsert ==
  /\ \E i \in Sessions :
       /\ session[i].pc = "fetched"
       /\ db' = [db EXCEPT !.app_info_localizations =
                   InsertAll(@, session[i].fetched, "localization_id")]
       /\ session' = [session EXCEPT ![i].pc = "done"]
  /\ UNCHANGED <<remote, last, steps, backupVars, readerVars, callVars, uploadVars, poolVars>>

\* the vendor side changes while the sessions run: the subtitle of a
\* localization is edited, or a locale is removed
RaceRemoteChange ==
  /\ steps < MaxSteps
  /\ \/ remote' = [remote EXCEPT !.infoLoc[<<RaceApp, "2", "en">>].subtitle =
                                    IF @ = "v0" THEN "v1" ELSE "v0"]
     \/ \E x \in RemovedIds \cap DOMAIN remote.infoLoc :
          remote' = [remote EXCEPT !.infoLoc = [y \in DOMAIN @ \ {x} |-> @[y]]]
  /\ steps' = steps + 1
  /\ UNCHANGED <<db, last, session, backupVars, readerVars, callVars, uploadVars, poolVars>>

RaceInit ==
  /\ db = PoolDb
  /\ remote = InitialRemote
  /\ last = NoOp
  /\ steps = 0
  /\ BackupIdle
  /\ ReaderIdle
  /\ CallIdle
  /\ UploadIdle
  /\ PoolIdle
  /\ session = [i \in Sessions |-> NoSession]

RaceNext ==
  \/ RaceDelete
  \/ RaceFetch
  \/ RaceInsert
  \/ RaceRemoteChange

RaceSpec == RaceInit /\ [][RaceNext]_vars

(***************************************************************************)
(* Properties.  A property about what one operation did to the cache is an *)
(* action formula: it compares db before and after the step whose record   *)
(* is last'.                                                               *)
(***************************************************************************)
AllTables == {"apps", "app_info_localizations", "app_versions",
              "app_version_localizations", "app_screenshots"}
LocTables == {"app_info_localizations", "app_version_localizations"}
TableOf(attr) ==
  IF attr \in InfoAttrs THEN "app_info_localizations" ELSE "app_version_localizations"
AttrsOf(table) == IF table = "app_info_localizations" THEN InfoAttrs ELSE VersionAttrs
RemoteLocs(rem, table) == IF table = "app_info_localizations" THEN rem.infoLoc ELSE rem.verLoc

\* the value the vendor holds for attribute k of a localization
RemoteValue(rem, table, id, k) == RemoteLocs(rem, table)[id][ATTRIBUTE_MAPPING[k]]

\* the row agrees with the vendor on every attribute and on the locale
RowFromRemote(rem, table, r) ==
  /\ r.localization_id \in DOMAIN RemoteLocs(rem, table)
  /\ r.locale = RemoteLocs(rem, table)[r.localization_id].locale
  /\ \A k \in AttrsOf(table) : r[k] = RemoteValue(rem, table, r.localization_id, k)

PatchFailed(rec) == rec.fault = TokenFault \/ Head(rec.fault) = "patch"

\* C1: when a PATCH of a save fails (no token, or the vendor answers with an
\* error), the save does not report success, no re-fetch runs, and every table
\* of the cache holds after the save exactly the rows it held before it.
C1_FailedPatchLeavesCache ==
  [][(last'.op = "save" /\ PatchFailed(last'))
       => /\ last'.st \in {"failed", "raise"}
          /\ last'.sync = "skipped"
          /\ db' = db]_vars

\* a save whose patch of the second locale was rejected after the patch of the
\* first one was accepted
C1_Witness ==
  /\ last.op = "save"
  /\ Head(last.fault) = "patch"
  /\ last.st = "raise"
  /\ Len(last.changes) = 2
  /\ SubSeq(last.fault, 2, Len(last.fault)) = last.changes[2].loc_id
  /\ get_attribute_data(db, last.attr, last.app, last.store, last.platform) # {}

Reconciles == {"fetch_and_store_apps", "fetch_and_store_single_app", "sync_attribute_data"}
StoreRows(dbase, s) == [t \in AllTables |-> {r \in dbase[t] : r.store_id = s}]

\* C2: when a remote read inside a reconciliation (full-store refresh,
\* single-app refresh, single-attribute refresh) fails, the cached rows of the
\* store being reconciled are the same after the operation as before it.
C2_ReadFailureLeavesScope ==
  [][(last'.op \in Reconciles /\ last'.fault # NoFault)
       => StoreRows(db', last'.store) = StoreRows(db, last'.store)]_vars

\* the app-info resource a re-fetch selects, as a set of at most one id
SelectedInfo(rem, a) ==
  LET pfs == SelectSeq(RemoteInfos(a), LAMBDA i : rem.infoState[i] = "PREPARE_FOR_SUBMISSION")
  IN IF pfs = <<>> THEN {} ELSE {pfs[AppInfoIndex(pfs)]}

\* the localizations a re-fetch of the scope of rec returns
Refetched(rem, rec) ==
  IF rec.attr \in InfoAttrs
  THEN {x \in DOMAIN rem.infoLoc : <<x[1], x[2]>> \in SelectedInfo(rem, rec.app)}
  ELSE {x \in DOMAIN rem.verLoc : <<x[1], x[2]>> = <<rec.app, rec.platform>>}

SaveRefetched(rec) == rec.op = "save" /\ rec.st = "success" /\ rec.sync = "true"

\* C3 as stated: after a save whose patches and re-fetch all succeeded, the
\* cache holds for each patched localization a row whose value of the edited
\* attribute is the value the vendor holds.
C3_EveryPatchedLocalizationCached ==
  SaveRefetched(last) =>
    \A i \in 1..Len(last.changes) :
      \E r \in db[TableOf(last.attr)] :
        /\ r.localization_id = last.changes[i].loc_id
        /\ r.store_id = last.store
        /\ r[last.attr] = RemoteValue(remote, TableOf(last.attr), r.localization_id, last.attr)

\* C3 amended: after a save whose patches and re-fetch all succeeded, each
\* patched localization that the re-fetch returned has a cached row whose value
\* of the edited attribute is the value the vendor holds, and a patched
\* localization that the re-fetch did not return has no cached row.
C3_PatchedLocalizationsMatchRemote ==
  SaveRefetched(last) =>
    \A i \in 1..Len(last.changes) :
      LET id == last.changes[i].loc_id
          rows == {r \in db[TableOf(last.attr)] : r.localization_id = id}
      IN IF id \in Refetched(remote, last)
         THEN /\ rows # {}
              /\ \A r \in rows :
                   /\ r.store_id = last.store
                   /\ r[last.attr] = RemoteValue(remote, TableOf(last.attr), id, last.attr)
         ELSE rows = {}

\* a save that patched two localizations and whose new text is in the cache
C3_Witness ==
  /\ SaveRefetched(last)
  /\ Len(last.changes) = 2
  /\ \E i \in 1..2 :
       /\ last.changes[i].val = "v1"
       /\ \E r \in db[TableOf(last.attr)] :
            /\ r.localization_id = last.changes[i].loc_id
            /\ r[last.attr] = "v1"
            /\ RemoteValue(remote, TableOf(last.attr), r.localization_id, last.attr) = "v1"

\* C4: every localization row that a step puts into the cache, or changes in
\* it, carries for every attribute the value the vendor holds when the step
\* ends: a save writes no text of the user into the cache by itself.
C4_CacheWrittenFromRemote ==
  [][\A t \in LocTables : \A r \in db'[t] \ db[t] : RowFromRemote(remote', t, r)]_vars

\* a save put the text the user typed into the cache, by way of the vendor
C4_Witness ==
  /\ last.op = "save"
  /\ last.st = "success"
  /\ last.attr = "description"
  /\ \E r \in db.app_version_localizations :
       r.description = "v1" /\ remote.verLoc[r.localization_id].description = "v1"

FetchListed(rec) ==
  rec.op = "fetch_and_store_apps" /\ rec.st \in {"true", "false"} /\ rec.listed # <<>>

\* C5: after a full-store refresh of store S whose listing returned the
\* non-empty list R, no table holds a row of store S whose app is not in R.
C5_NoRowOfUnlistedApp ==
  FetchListed(last) =>
    \A t \in AllTables : \A r \in db[t] :
      r.store_id = last.store => r.app_id \in SeqToSet(last.listed)

\* a refresh that began with rows of an app the listing no longer returns
C5_Witness ==
  /\ FetchListed(last)
  /\ last.before \ SeqToSet(last.listed) # {}

CleanupAt(trace) == {i \in 1..Len(trace) : trace[i].ev = "cleanup"}

\* the cleanup is the last step, covers the whole listing, and every listed
\* app has been processed, in order, before it
CleanupLastAndComplete(rec) ==
  \A i \in CleanupAt(rec.trace) :
    /\ i = Len(rec.trace)
    /\ rec.trace[i].ids = rec.listed
    /\ Len(rec.trace) = Len(rec.listed) + 1
    /\ \A j \in 1..Len(rec.listed) :
         rec.trace[j].ev = "process_app" /\ rec.trace[j].app = rec.listed[j]

C7_RefreshIdempotent ==
  [][(last'.op = "fetch_and_store_apps" /\ last'.repeat) => db' = db]_vars

\* a second refresh in a row that processed apps
C7_Witness ==
  /\ last.op = "fetch_and_store_apps"
  /\ last.repeat
  /\ last.st = "true"
  /\ db.app_version_localizations # {}

PlatformTables == {"app_versions", "app_version_localizations", "app_screenshots"}
OtherPlatforms(dbase, p) == [t \in PlatformTables |-> {r \in dbase[t] : r.platform # p}]

\* C8: a single-attribute refresh of a version attribute or of the screenshots
\* for one platform leaves every row of another platform in app_versions,
\* app_version_localizations and app_screenshots as it was.
C8_OtherPlatformUntouched ==
  [][(last'.op = "sync_attribute_data" /\ last'.attr \in VersionAttrs \cup {"screenshots"})
       => OtherPlatforms(db', last'.platform) = OtherPlatforms(db, last'.platform)]_vars

\* a refresh for IOS that emptied the IOS rows and left the MAC_OS rows
C8_Witness ==
  /\ last.op = "sync_attribute_data"
  /\ last.attr = "description"
  /\ last.platform = "IOS"
  /\ {r \in db.app_version_localizations : r.platform = "IOS"} = {}
  /\ {r \in db.app_version_localizations : r.platform = "MAC_OS"} # {}
  /\ {r \in db.app_versions : r.platform = "MAC_OS"} # {}
  /\ {r \in db.app_screenshots : r.platform = "MAC_OS"} # {}

SyncOfAttr(rec) ==
  rec.op = "sync_attribute_data" /\ rec.attr \in InfoAttrs \cup VersionAttrs

\* C9 as stated: a single-attribute refresh for attribute X of app A leaves
\* every other attribute of the cached rows of A with the value it had.
C9_OtherAttributesKeepCachedValue ==
  [][SyncOfAttr(last')
       => \A t \in LocTables : \A r \in db[t] : \A r2 \in db'[t] :
            (r.app_id = last'.app /\ r2.localization_id = r.localization_id)
              => \A k \in AttrsOf(t) \ {last'.attr} : r2[k] = r[k]]_vars

\* C9 amended: a single-attribute refresh for attribute X of app A re-reads
\* the whole rows of the scope of X: when it succeeds, every attribute of every
\* cached row of that scope has the value the vendor holds (so another
\* attribute keeps its cached value only if the vendor still holds it); the
\* rows of the other localization table, of app_screenshots and of apps are
\* unchanged whatever the outcome.
C9_ScopeRowsTakeRemoteValues ==
  [][SyncOfAttr(last')
       => /\ last'.st = "true"
             => \A r \in get_attribute_data(db', last'.attr, last'.app, last'.store, last'.platform) :
                  RowFromRemote(remote', TableOf(last'.attr), r)
          /\ \A t \in (LocTables \ {TableOf(last'.attr)}) \cup {"apps", "app_screenshots"} :
               db'[t] = db[t]]_vars

\* a refresh of subtitle brought a name the vendor had changed into the cache
C9_Witness ==
  /\ last.op = "sync_attribute_data"
  /\ last.attr = "subtitle"
  /\ last.st = "true"
  /\ \E r \in db.app_info_localizations :
       r.name = "v1" /\ r.subtitle = "v0" /\ r.app_id = last.app

OtherApps(dbase, a) == [t \in AllTables |-> {r \in dbase[t] : r.app_id # a}]

\* C10: a single-app refresh of app A leaves every cached row of another app
\* as it was, whether the refresh succeeds or fails.
C10_SingleAppLeavesOtherApps ==
  [][last'.op = "fetch_and_store_single_app"
       => OtherApps(db', last'.app) = OtherApps(db, last'.app)]_vars

\* a failed refresh of A with the rows of B in the cache
C10_Witness ==
  /\ last.op = "fetch_and_store_single_app"
  /\ last.app = "A"
  /\ last.st = "false"
  /\ \E r \in db.app_info_localizations : r.app_id = "B"
  /\ \E r \in db.apps : r.app_id = "B"

ProcessedOk(trace) == {i \in 1..Len(trace) : trace[i].ev = "process_app" /\ trace[i].ok}

\* C11: a full-store refresh returns success exactly when process_app
\* succeeded for at least one listed app, and every listed app is processed, in
\* the order of the listing, whether or not an earlier app failed.
C11_SuccessIffOneAppProcessed ==
  (last.op = "fetch_and_store_apps" /\ last.st # "raise") =>
    /\ (last.st = "true") <=> (ProcessedOk(last.trace) # {})
    /\ \A j \in 1..Len(last.listed) :
         /\ j <= Len(last.trace)
         /\ last.trace[j].ev = "process_app"
         /\ last.trace[j].app = last.listed[j]

\* the first listed app failed, the second one was processed, success returned
C11_Witness ==
  /\ last.op = "fetch_and_store_apps"
  /\ last.st = "true"
  /\ Len(last.listed) = 2
  /\ ~last.trace[1].ok
  /\ last.trace[2].ev = "process_app" /\ last.trace[2].ok

ChildTables == {"app_info_localizations", "app_version_localizations",
                "app_versions", "app_screenshots"}

\* C20: in every reachable state, every row of app_info_localizations,
\* app_version_localizations, app_versions and app_screenshots has an
\* (app_id, store_id) for which apps holds a row of that app_id and store_id.
C20_ChildRowsHaveAppsRow ==
  \A t \in ChildTables : \A r \in db[t] :
    \E x \in db.apps : x.app_id = r.app_id /\ x.store_id = r.store_id

\* what the operation recorded in rec gives when it starts from dbase and rem
\* and meets fault f: the cache it leaves and the result it returns
Outcome(rec, dbase, rem, f) ==
  IF rec.op = "fetch_and_store_apps"
  THEN With(fetch_and_store_apps(dbase, rem, rec.store, f), LAMBDA r :
         [db |-> r.db, st |-> r.st])
  ELSE IF rec.op = "fetch_and_store_single_app"
  THEN With(fetch_and_store_single_app(dbase, rem, rec.app, rec.store, f), LAMBDA r :
         [db |-> r.db, st |-> r.st])
  ELSE With(sync_attribute_data(dbase, rem, rec.attr, rec.app, rec.store, f, rec.platform),
            LAMBDA r : [db |-> r.db, st |-> r.st])

PushFailed(rec) ==
  /\ rec.op \in Reconciles
  /\ Head(rec.fault) = "push"

\* C13: when a call of sync_db_to_github made by an engine operation fails
\* (the PUT is answered with a non-2xx status, or the request ends in a
\* network error), the operation returns the result and leaves the cache that
\* it returns and leaves when every push succeeds.
C13_PushFailureOnlyLogged ==
  [][PushFailed(last') =>
       [db |-> db', st |-> last'.st] = Outcome(last', db, remote, NoFault)]_vars

\* C18: every operation that changes the cache (full-store refresh,
\* single-app refresh, single-attribute refresh, screenshot refresh, save
\* with its re-fetch), whether it succeeds or fails, calls sync_db_to_github
\* after its last write and before control returns: the cache handed to the
\* last call is the cache the operation leaves.
C18_MutationFollowedByPersist ==
  [][(last'.op \in Reconciles \cup {"save"} /\ db' # db) => last'.saved = {db'}]_vars

\* C14: a download of load_db_from_github that is corrupted or has zero
\* bytes leaves the local file that was there before as it was.
C14_BadDownloadLeavesFile ==
  [][(event'.op = "load" /\ event'.status = 200 /\ ~IntegrityOk(event'.content)
      /\ exists(file))
     => file' = file]_vars

\* C15: a call of sync_db_to_github that finds the local file missing or
\* below 1000 bytes returns without sending a request and without uploading:
\* the caller stays idle and the blob is unchanged; every GET and PUT carries
\* the content of a file of at least 1000 bytes.
C15_NoPushOfMissingOrSmallFile ==
  [][/\ (event'.op \in {"skip", "read"} /\ (file = "missing" \/ getsize(file) < MinPushSize))
        => (event'.op = "skip" /\ writer' = writer /\ blob' = blob)
     /\ (event'.op \in {"get", "put"})
        => (event'.content # "missing" /\ getsize(event'.content) >= MinPushSize)]_vars

\* sync_db_to_github was called on a file below 1000 bytes and skipped the push
C15_Witness ==
  /\ event.op = "skip"
  /\ file = "small"
  /\ \A p \in Writers : writer[p].pc = "idle"

\* C16: sync_db_to_github uploads no file that fails the integrity probe.
C16_NoUploadOfCorruptFile ==
  [][(event'.op = "put" /\ event'.status \in {200, 201}) => IntegrityOk(blob')]_vars

\* C17: an upload to a blob that existed when the call read it carries the
\* sha read in that call, and an upload carries no sha only when the blob did
\* not exist; an upload with a stale sha is not accepted, so the blob is the
\* whole content of one writer.
C17_UploadCarriesCurrentToken ==
  event.op = "put" =>
    /\ (event.before # "absent") => (event.sha = event.before)
    /\ (event.sha = None) => (event.before = "absent")
    /\ (event.status \in {200, 201}) => (blob = event.content)

\* the calls that read or write the cache
CacheAccess == {"check_database_exists", "initialize_database", "create_default_admin",
                "login"}

\* C19: at process start load_db_from_github runs exactly once, before the
\* first read or write of the cache.
C19_RestoreOnceBeforeCacheAccess ==
  startup # <<>> =>
    /\ Cardinality({i \in 1..Len(startup) : startup[i] = "load_db_from_github"}) = 1
    /\ \A i \in 1..Len(startup) :
         startup[i] \in CacheAccess =>
           \E j \in 1..(i - 1) : startup[j] = "load_db_from_github"

\* C12: a reader that reads the rows of a scope while a refresh replaces
\* them gets the complete rows from before the refresh or the complete rows
\* from after it, never an empty or a partial scope in between.
C12_ReaderSeesBeforeOrAfter ==
  seen.during => seen.rows \in {scope.before, scope.after}

\* C21: in every reachable state, each row of app_version_localizations has a
\* row of app_versions with its version_id, and the platform of that row is
\* the platform of the localization row.
C21_VersionLocalizationHasVersion ==
  \A r \in db.app_version_localizations :
    \E v \in db.app_versions : v.version_id = r.version_id /\ v.platform = r.platform


\* C22: in every reachable state app_info_localizations holds at most one
\* row for an (app_id, store_id, locale) and app_version_localizations at most
\* one row for a (version_id, locale); the vendor holds one localization per
\* locale in each app-info resource and in each version throughout.
C22_OneRowPerLocale ==
  /\ \A r1, r2 \in db.app_info_localizations :
       (r1.app_id = r2.app_id /\ r1.store_id = r2.store_id /\ r1.locale = r2.locale)
         => r1 = r2
  /\ \A r1, r2 \in db.app_version_localizations :
       (r1.version_id = r2.version_id /\ r1.locale = r2.locale) => r1 = r2

TokenFailed(rec) == rec.op \in Reconciles \cup {"save"} /\ rec.fault = TokenFault

\* C23: when generate_jwt gives no token, a full-store refresh, a single-app
\* refresh, a single-attribute refresh and the patches of a save report
\* failure to their caller, and no request reaches the vendor: nothing is
\* patched there and no row read from it is written to the cache.
C23_NoTokenReportsFailure ==
  [][TokenFailed(last')
       => /\ last'.st \in {"false", "failed"}
          /\ remote' = remote
          /\ \A t \in ChildTables : db'[t] \subseteq db[t]]_vars

\* the apps whose app-info localizations the operation of rec replaces
InfoScope(rec) ==
  IF rec.op = "fetch_and_store_apps" THEN SeqToSet(rec.listed)
  ELSE IF rec.op = "fetch_and_store_single_app" THEN {rec.app}
  ELSE IF rec.op = "sync_attribute_data" /\ rec.attr \in InfoAttrs THEN {rec.app}
  ELSE {}

\* the app_info_localizations rows the operation of rec left for its scope:
\* it deleted the rows of the scope first, so these are the rows it wrote
InfoRowsWritten(rec, dbase) ==
  {r \in dbase.app_info_localizations : r.store_id = rec.store /\ r.app_id \in InfoScope(rec)}

\* the app-info resource a localization belongs to
InfoOf(localization_id) == <<localization_id[1], localization_id[2]>>

\* C24: every app-info resource whose localizations a refresh (process_app or
\* sync_attribute_data) wrote into app_info_localizations is in state
\* PREPARE_FOR_SUBMISSION, and for an app without a resource in that state the
\* refresh wrote no app-info localization row.
C24_OnlyEditableAppInfoWritten ==
  /\ \A r \in InfoRowsWritten(last, db) :
       remote.infoState[InfoOf(r.localization_id)] = "PREPARE_FOR_SUBMISSION"
  /\ \A a \in InfoScope(last) :
       SelectedInfo(remote, a) = {}
         => {r \in InfoRowsWritten(last, db) : r.app_id = a} = {}

\* a refresh wrote the localizations of the first resource of A after that one
\* became the editable one and the second one went live
C24_Witness ==
  /\ last.op \in Reconciles
  /\ "A" \in InfoScope(last)
  /\ remote.infoState[<<"A", "1">>] = "PREPARE_FOR_SUBMISSION"
  /\ remote.infoState[<<"A", "2">>] # "PREPARE_FOR_SUBMISSION"
  /\ \E r \in InfoRowsWritten(last, db) : InfoOf(r.localization_id) = <<"A", "1">>

\* the vendor key of an internal attribute name, as the claim lists them
VendorKeyClaimed(k) ==
  CASE k = "privacy_policy_url" -> "privacyPolicyUrl"
    [] k = "privacy_choices_url" -> "privacyChoicesUrl"
    [] k = "marketing_url" -> "marketingUrl"
    [] k = "support_url" -> "supportUrl"
    [] k = "whats_new" -> "whatsNew"
    [] k = "promotional_text" -> "promotionalText"
    [] OTHER -> k

\* C25: the attributes of the payload of a localization PATCH are exactly the
\* entries of the attribute map whose value is not None, each under the vendor
\* key of the mapping table (a name the table does not hold stays as it is),
\* each with its value unchanged.
C25_PayloadIsMappedNonNone ==
  \A payload \in output :
    LET sent_keys == {k \in DOMAIN input.attributes : input.attributes[k] # None}
    IN /\ DOMAIN payload.data.attributes = {VendorKeyClaimed(k) : k \in sent_keys}
       /\ \A k \in sent_keys :
            payload.data.attributes[VendorKeyClaimed(k)] = input.attributes[k]

\* a map with a text under a renamed key and a None: only the text is sent
C25_Witness ==
  /\ DOMAIN input.attributes = {"whats_new", "keywords"}
  /\ input.attributes["whats_new"] = "v1"
  /\ input.attributes["keywords"] = None
  /\ \E payload \in output :
       /\ DOMAIN payload.data.attributes = {"whatsNew"}
       /\ payload.data.attributes["whatsNew"] = "v1"

\* the localizations whose patch call did not return True
FailedPatches(rec) ==
  {rec.changes[i].loc_id : i \in {j \in 1..Len(rec.changes) :
     \/ rec.fault = TokenFault
     \/ rec.fault = <<"patch">> \o rec.changes[j].loc_id}}

\* the locales that the result of a save names as failed: the handler shows
\* "Saved successfully!" or "Save failed.", which names none (and shows
\* neither when a patch raises)
ReportedFailed(rec) == {}

\* C29: a save over several locales attempts the patch of every locale, also
\* after the patch of an earlier locale failed, and its result names exactly
\* the locales whose patch failed.
C29_EveryLocaleAttemptedAndReported ==
  last.op = "save" =>
    /\ {last.tried[i].loc_id : i \in 1..Len(last.tried)}
         = {last.changes[i].loc_id : i \in 1..Len(last.changes)}
    /\ ReportedFailed(last) = FailedPatches(last)

\* C30: when every patch of a save succeeded and the re-fetch of the cache
\* that follows failed (sync_attribute_data returned False or raised), the
\* save does not report success.
C30_RefetchFailureNotPlainSuccess ==
  (last.op = "save" /\ last.sync \in {"false", "raise"}) => last.st # "success"

\* the pages of a listing in the order of their links, from url on
RECURSIVE PageOrder(_, _)
PageOrder(pages, url) ==
  IF url = None THEN <<>> ELSE <<url>> \o PageOrder(pages, pages[url].next)

\* the apps of the pages in order, one page after the other
RECURSIVE Concatenated(_, _)
Concatenated(pages, order) ==
  IF order = <<>> THEN <<>>
  ELSE pages[Head(order)].data \o Concatenated(pages, Tail(order))

\* C26: with a token, fetch_all_apps follows the "next" link of each page
\* until a page has none and returns the apps of all pages concatenated in
\* page order; when the request of any of these pages fails, it fails and
\* returns no list, not even the apps of the pages read before.
C26_AllPagesOrNothing ==
  \A r \in output :
    input.fault # TokenFault =>
      LET order == PageOrder(input.pages, "apps")
      IN IF \E i \in 1..Len(order) : input.fault = <<order[i]>>
         THEN r.st = "raise" /\ r.data = <<>>
         ELSE r.st = "ok" /\ r.data = Concatenated(input.pages, order)

\* a listing of three pages, read in the order of the links, which is not
\* the order of the urls
C26_Witness ==
  /\ input.fault = NoFault
  /\ PageOrder(input.pages, "apps") = <<"apps", "apps?cursor=3", "apps?cursor=2">>
  /\ input.pages["apps"].data = <<"A">>
  /\ input.pages["apps?cursor=3"].data = <<"B", "C">>
  /\ input.pages["apps?cursor=2"].data = <<"A">>
  /\ \E r \in output : r.data = <<"A", "B", "C", "A">>

\* the requests of kind req made for file k, as positions in sent
RequestsFor(req, k) == {i \in 1..Len(sent) : sent[i].req = req /\ sent[i].file = k}

\* C27: for each screenshot the placeholder is created first, then every
\* upload operation the placeholder returned is performed, in order, with the
\* bytes [offset, offset + length) of the file, and the PATCH that marks the
\* screenshot uploaded is sent only after the creation and all of these
\* succeeded: no PATCH follows a failed phase.
C27_PhasesInOrder ==
  /\ \A i \in 1..Len(sent) :
       sent[i].req = "upload" =>
         /\ sent[i].chunk = SubSeq(job.files[sent[i].file].bytes,
                                   sent[i].offset + 1, sent[i].offset + sent[i].length)
         /\ \E j \in 1..(i - 1) :
              sent[j].req = "create" /\ sent[j].file = sent[i].file /\ sent[j].status = 201
  /\ \A i \in 1..Len(sent) :
       sent[i].req = "finalize" =>
         \E j \in 1..(i - 1) :
           /\ sent[j].req = "create" /\ sent[j].file = sent[i].file /\ sent[j].status = 201
           /\ i = j + Len(sent[j].ops) + 1
           /\ \A n \in 1..Len(sent[j].ops) :
                /\ sent[j + n].req = "upload" /\ sent[j + n].file = sent[i].file
                /\ sent[j + n].offset = sent[j].ops[n].offset
                /\ sent[j + n].length = sent[j].ops[n].length
                /\ sent[j + n].status < 400 /\ sent[j + n].status # 0

\* a file of three bytes went up in two parts and was marked uploaded
C27_Witness ==
  \E i \in 1..Len(sent) :
    /\ sent[i].req = "finalize" /\ sent[i].status = 200 /\ sent[i].file = 1
    /\ i = 4
    /\ sent[2].chunk = <<1>>
    /\ sent[3].chunk = <<2, 3>>

\* C28: when a phase of one screenshot of a batch fails, the other
\* screenshots of the batch are still attempted: once the call has gone
\* through its files, a placeholder was requested for every file of the batch.
C28_OtherScreenshotsAttempted ==
  (job.pc = "done" /\ job.files # <<>>) =>
    \A k \in 1..Len(job.files) : RequestsFor("create", k) # {}

\* a full-store refresh whose listing call succeeded and returned no app
ListedNothing(rec) ==
  /\ rec.op = "fetch_and_store_apps"
  /\ rec.fault = NoFault
  /\ remote.listing[rec.store] = {}

\* C31: after a full-store refresh of store S whose listing succeeded and
\* holds no app, no table of the cache holds a row of store S.
C31_EmptyListingClearsStore ==
  ListedNothing(last) => \A t \in AllTables : \A r \in db[t] : r.store_id # last.store

\* the app-info resources of app a in PREPARE_FOR_SUBMISSION, in the order
\* the vendor returns them
EditableInfos(rem, a) ==
  SelectSeq(RemoteInfos(a), LAMBDA i : rem.infoState[i] = "PREPARE_FOR_SUBMISSION")

\* C32: when the vendor returns more than one app-info resource in
\* PREPARE_FOR_SUBMISSION for an app, the app-info localization rows a refresh
\* (process_app or sync_attribute_data) wrote for the app are those of the
\* first of these resources.
C32_FirstEditableAppInfoTaken ==
  \A a \in InfoScope(last) :
    Len(EditableInfos(remote, a)) > 1 =>
      \A r \in InfoRowsWritten(last, db) :
        r.app_id = a => InfoOf(r.localization_id) = Head(EditableInfos(remote, a))

\* the app-info localization rows the vendor holds for app a as rows of store
\* s: the localizations of the resource a refresh selects
RemoteInfoRows(rem, a, s) ==
  {InfoLocRow([id |-> x, attributes |-> rem.infoLoc[x]], a, s) :
     x \in {y \in DOMAIN rem.infoLoc : InfoOf(y) \in SelectedInfo(rem, a)}}

\* the version localization rows the vendor holds for the versions of app a
\* on the platforms ps, as rows of store s
RemoteVersionRows(rem, a, s, ps) ==
  {VerLocRow([id |-> x, attributes |-> rem.verLoc[x]], <<x[1], x[2]>>, a, s, x[2]) :
     x \in {y \in DOMAIN rem.verLoc : y[1] = a /\ y[2] \in ps}}

\* what the vendor returned to the refresh of rec: the rows it holds, or
\* nothing when no token could be made and so no request was sent
Returned(rec, rows) == IF rec.fault = TokenFault THEN {} ELSE rows

\* the refresh of rec reported success
RefreshSucceeded(rec) ==
  /\ rec.op \in {"fetch_and_store_single_app", "sync_attribute_data"}
  /\ rec.st = "true"

\* C33: after a per-app refresh, an app-info attribute refresh or a version
\* attribute refresh of one platform that reported success, the cached
\* localization rows of the scope are exactly the localizations the vendor
\* returned: no row is left for a locale or an id the vendor no longer has.
C33_ScopeRowsAreRemoteRows ==
  RefreshSucceeded(last) =>
    /\ (last.op = "fetch_and_store_single_app" \/ last.attr \in InfoAttrs) =>
         {r \in db.app_info_localizations : r.app_id = last.app /\ r.store_id = last.store}
           = Returned(last, RemoteInfoRows(remote, last.app, last.store))
    /\ last.op = "fetch_and_store_single_app" =>
         {r \in db.app_version_localizations :
            r.app_id = last.app /\ r.store_id = last.store}
           = Returned(last, RemoteVersionRows(remote, last.app, last.store,
                                              {"IOS", "MAC_OS"}))
    /\ last.attr \in VersionAttrs =>
         {r \in db.app_version_localizations :
            r.app_id = last.app /\ r.store_id = last.store /\ r.platform = last.platform}
           = Returned(last, RemoteVersionRows(remote, last.app, last.store,
                                              {last.platform}))

\* app A was refreshed after the vendor lost the locale fr of its editable
\* app-info resource: the rows of the scope are the remaining localizations
C33_Witness ==
  /\ RefreshSucceeded(last)
  /\ last.app = "A"
  /\ last.fault = NoFault
  /\ last.op = "fetch_and_store_single_app" \/ last.attr \in InfoAttrs
  /\ <<"A", "2", "fr">> \notin DOMAIN remote.infoLoc
  /\ \E r \in db.app_info_localizations :
       r.store_id = last.store /\ r.localization_id = <<"A", "2", "en">>

\* the screenshot rows of one locale of a platform of an app in a store
ShotsOfLocale(dbase, a, s, platform, locale) ==
  {r \in dbase.app_screenshots :
     r.app_id = a /\ r.store_id = s /\ r.platform = platform /\ r.locale = locale}

\* the screenshot rows the vendor holds for that locale, as rows of store s
RemoteShotRows(rem, a, s, platform, locale) ==
  UNION {{[id |-> shot.id, app_id |-> a, store_id |-> s, localization_id |-> x,
           locale |-> locale, display_type |-> shot.display_type, url |-> shot.url,
           width |-> shot.width, height |-> shot.height, platform |-> platform] :
          shot \in RemoteShots(x)} :
         x \in {y \in DOMAIN rem.verLoc :
                  y[1] = a /\ y[2] = platform /\ rem.verLoc[y].locale = locale}}

\* the screenshot refresh of rec lost the sub-fetch of one locale
LocaleFetchFailed(rec) ==
  /\ rec.op = "sync_attribute_data"
  /\ rec.attr = "screenshots"
  /\ Head(rec.fault) = "sets"

\* C35: when the sub-fetch of one locale fails in fetch_screenshots, the
\* cached screenshot rows of that locale are the same after the refresh as
\* before it, and the rows of every other locale of the scope are the freshly
\* fetched ones.
C35_FailedLocaleKeepsRows ==
  [][LocaleFetchFailed(last') =>
       \A l \in Locales :
         ShotsOfLocale(db', last'.app, last'.store, last'.platform, l)
           = IF l = last'.fault[4]
             THEN ShotsOfLocale(db, last'.app, last'.store, last'.platform, l)
             ELSE RemoteShotRows(remote, last'.app, last'.store, last'.platform, l)]_vars

\* the resource type of the PATCH that saves an attribute
PatchTypeOf(attr) ==
  IF attr \in InfoAttrs THEN "appInfoLocalizations" ELSE "appStoreVersionLocalizations"

\* the localizations of the save of rec whose text the user left empty
EmptiedLocalizations(rec) ==
  {rec.changes[i].loc_id : i \in {j \in 1..Len(rec.changes) : rec.changes[j].val = None}}

\* C36: a save in which the user leaves the text of a locale empty builds for
\* that localization a PATCH whose attributes do not hold the edited
\* attribute, and the vendor's value of the attribute for that localization is
\* the same after the save as before it.
C36_EmptyEditNotSentAsClear ==
  [][last'.op = "save" =>
       \A x \in EmptiedLocalizations(last') :
         /\ MappedKey(last'.attr)
              \notin DOMAIN PatchPayload(PatchTypeOf(last'.attr), x,
                                         [k \in {last'.attr} |-> None]).data.attributes
         /\ x \in DOMAIN RemoteLocs(remote, TableOf(last'.attr)) =>
              /\ x \in DOMAIN RemoteLocs(remote', TableOf(last'.attr))
              /\ RemoteLocs(remote', TableOf(last'.attr))[x][MappedKey(last'.attr)]
                   = RemoteLocs(remote, TableOf(last'.attr))[x][MappedKey(last'.attr)]]_vars

\* a save went through in which the PATCH of an emptied locale was accepted
C36_Witness ==
  /\ last.op = "save"
  /\ last.st = "success"
  /\ \E j \in 1..Len(last.tried) :
       /\ last.tried[j].loc_id \in EmptiedLocalizations(last)
       /\ last.tried[j].st = "true"

\* C37: a full-store refresh, a single-app refresh or a single-attribute
\* refresh for store S leaves every cached row of every other store as it
\* was, also when the two stores list the same app.
C37_OtherStoresUntouched ==
  [][last'.op \in Reconciles =>
       \A s \in Stores \ {last'.store} : StoreRows(db', s) = StoreRows(db, s)]_vars

\* C39: a full-store refresh whose listing returned at least one app runs the
\* processing step of every listed app, whether or not it fails, then the
\* cleanup, and then calls the backup persist on the cache the cleanup left.
C39_CleanupThenPersistFollow ==
  (last.op = "fetch_and_store_apps" /\ last.listed # <<>>) =>
    /\ Len(last.trace) = Len(last.listed) + 1
    /\ \A j \in 1..Len(last.listed) : last.trace[j].ev = "process_app"
    /\ CleanupAt(last.trace) = {Len(last.trace)}
    /\ last.saved = {db}

\* every processing step of the refresh failed, the cleanup and the persist
\* followed
C39_Witness ==
  /\ last.op = "fetch_and_store_apps"
  /\ last.listed # <<>>
  /\ \A j \in 1..Len(last.listed) : ~last.trace[j].ok
  /\ last.trace[Len(last.trace)].ev = "cleanup"
  /\ last.saved = {db}

\* what process_app gives for the single-app refresh recorded in rec, started
\* on the cache dbase
ProcessedSingle(rec, dbase, rem) ==
  LET named == {r \in dbase.apps : r.app_id = rec.app /\ r.store_id = rec.store}
  IN process_app(dbase, rem,
                 [id |-> rec.app,
                  name |-> IF named = {} THEN "Unknown" ELSE (CHOOSE r \in named : TRUE).name],
                 rec.store, rec.fault)

\* C40: fetch_and_store_single_app returns True or False and never lets an
\* exception out: it returns False when process_app or the persist after it
\* raised, and True only when process_app completed.
C40_SingleAppNeverRaises ==
  [][last'.op = "fetch_and_store_single_app" =>
       \E r \in {ProcessedSingle(last', db, remote)} :
         /\ last'.st \in {"true", "false"}
         /\ r.st = "raise" => last'.st = "false"
         /\ sync_db_to_github(<<"single_app">>, last'.fault) = "raise" => last'.st = "false"
         /\ last'.st = "true" => r.st = "ok"]_vars

\* a single-app refresh in which a request of process_app failed returned
\* False
C40_Witness ==
  /\ last.op = "fetch_and_store_single_app"
  /\ last.fault = <<"versions", "A">>
  /\ last.st = "false"

\* C34: in fetch_screenshots no write to app_screenshots happens while a
\* task of the pool is queued or running: the table is as the call found it
\* until the write, the write comes when every task has finished, and it is
\* one step that replaces the rows of the scope by the rows taken from the
\* futures.
C34_WriteAfterAllTasks ==
  /\ (pool.pc = "write" \/ pool.written) => \A i \in 1..Len(tasks) : Finished(tasks[i])
  /\ ~pool.written => db = PoolDb
  /\ pool.written =>
       {r \in db.app_screenshots :
          /\ r.app_id = PoolApp
          /\ r.store_id = PoolStore
          /\ pool.platform = None \/ r.platform = pool.platform}
         = pool.all_screenshots

\* the future of a task timed out, the block waited for the task, and the
\* table was written afterwards
C34_Witness ==
  /\ pool.written
  /\ \E i \in pool.timedout : tasks[i].st = "done"

\* C38: when two sessions have refreshed the same scope at once and fetched
\* different snapshots because the vendor side changed between their fetches,
\* the cached rows of the scope are the rows one of the two fetched, never a
\* mix of the two snapshots.
C38_OneSnapshotWins ==
  (/\ \A i \in Sessions : session[i].pc = "done"
   /\ session[1].fetched # session[2].fetched) =>
    \E i \in Sessions :
      {r \in db.app_info_localizations : r.app_id = RaceApp /\ r.store_id = RaceStore}
        = session[i].fetched

====
